---- MODULE Spec2Model ----
(***************************************************************************)
(* Draft store of the Linquoral client: the reducer of DraftContext.js,    *)
(* the asynchronous operations of DraftProvider, the draft gateway of      *)
(* draftService.js with its AsyncStorage cache slot, and the backend the   *)
(* gateway talks to.                                                       *)
(*                                                                         *)
(* A draft carries the fields the store logic reads or writes: id, the     *)
(* three text stages, tone, status and scheduledAt.  Title, userId, audio  *)
(* reference, media attachments and the createdAt/updatedAt stamps are     *)
(* carried through the store untouched and are left out.                   *)
(***************************************************************************)
EXTENDS Integers, Sequences, FiniteSets, TLC

\* ------------------------------------------------------------------------
\* Bounds of the model
\* ------------------------------------------------------------------------
\* number of asynchronous store operations that may be in flight together
MaxCalls == 2
\* number of draft ids the backend hands out
MaxDrafts == 2
\* cap on stats.scheduledPosts (scheduleDraft is not started at the cap)
MaxCount == 2
\* number of asynchronous operations started in one run
MaxOps == 3
\* number of Audio.Recording objects one recorder creates
MaxRecordings == 2
\* number of invocations of the recorder's async functions in flight together
MaxTasks == 2
\* number of button presses on the recorder
MaxPresses == 4
\* the duration interval is followed tick by tick below ShortTicks seconds
\* and from SkipTicks seconds on; in between it fires SkipTicks times in a row
ShortTicks == 4
SkipTicks == 296
\* ticks a leaked interval is followed beyond MAX_DURATION_MS
OverrunTicks == 1

\* length of the texts a title is generated from
MaxText == 4
\* largest maxLength argument
MaxTitleLength == 5
\* number of times a title is generated from the one before
MaxTitles == 2

\* number of pickImage and pickVideo invocations in one run
MaxPicks == 2

\* ------------------------------------------------------------------------
\* Values
\* ------------------------------------------------------------------------
\* null and undefined, one value per type so that values stay comparable
NULL == "null"
Undefined == "undefined"
NullDraft == [type |-> "null"]
NoDate == [type |-> "null"]
NoId == 0

DraftIds == 1..MaxDrafts
Slots == 1..MaxCalls

\* tones offered by the editor (subset of DRAFT_TONES) and the tone the
\* recorder starts with
Tones == {"Professional", "Casual-Pro"}
RecordTones == {"Professional"}
\* outputs of the AI pipeline: the transcript of a recording and the text
\* refined for a tone
Transcript == "r"
RefinedText(tone) == IF tone = "Professional" THEN "p" ELSE "c"
\* texts typed into the editor
EditTexts == {"u"}
\* schedule timestamps picked by the user
ScheduleTimes == {1}

NetworkError == "Unable to connect. Please check your internet connection."
ApiError == "An error occurred."

\* a Date object and the ISO string JSON keeps of it
DateOf(t) == [type |-> "Date", ms |-> t]
IsoOf(t) == [type |-> "string", ms |-> t]

\* Date.prototype.toISOString / toJSON
toISOString(d) == IsoOf(d.ms)
\* new Date(isoString)
newDate(s) == DateOf(s.ms)

Max(a, b) == IF a >= b THEN a ELSE b

\* Array.prototype.filter
FilterSeq(s, Keep(_)) == SelectSeq(s, Keep)

\* Array.prototype.map
MapSeq(s, F(_)) == [i \in 1..Len(s) |-> F(s[i])]

\* a || b of JavaScript on strings
Falsy(v) == v \in {Undefined, NULL, ""}
OrElse(a, b) == IF Falsy(a) THEN b ELSE a

\* default parameter value: used only when the argument is undefined
Default(v, d) == IF v = Undefined THEN d ELSE v

\* ------------------------------------------------------------------------
\* models/Draft.js
\* ------------------------------------------------------------------------
\* faulty variant: the text stages have no default value
createDraft_undefaulted(p) ==
  [id |-> p.id,
   rawTranscript |-> p.rawTranscript,
   aiRefinedText |-> p.aiRefinedText,
   userEditedText |-> p.userEditedText,
   tone |-> Default(p.tone, "Professional"),
   status |-> Default(p.status, "draft"),
   scheduledAt |-> p.scheduledAt]

createDraft(p) ==
  [id |-> p.id,
   rawTranscript |-> Default(p.rawTranscript, ""),
   aiRefinedText |-> Default(p.aiRefinedText, ""),
   userEditedText |-> Default(p.userEditedText, ""),
   tone |-> Default(p.tone, "Professional"),
   status |-> Default(p.status, "draft"),
   scheduledAt |-> p.scheduledAt]

getDisplayText(draft) ==
  OrElse(OrElse(draft.userEditedText, draft.aiRefinedText), draft.rawTranscript)

\* a string is the sequence of its characters
Chars == {"a", " ", "\n"}
Strings(n) == UNION {[1..k -> Chars] : k \in 0..n}
Ellipsis == <<".", ".", ".">>

\* text.replace(/\n/g, ' ')
replaceNewlines(t) == [i \in 1..Len(t) |-> IF t[i] = "\n" THEN " " ELSE t[i]]

\* String.prototype.trim: white space and line terminators go from both ends
RECURSIVE trimStart(_)
trimStart(t) ==
  IF t # <<>> /\ Head(t) \in {" ", "\n"} THEN trimStart(Tail(t)) ELSE t
RECURSIVE trimEnd(_)
trimEnd(t) ==
  IF t # <<>> /\ t[Len(t)] \in {" ", "\n"} THEN trimEnd(SubSeq(t, 1, Len(t) - 1))
  ELSE t
trim(t) == trimEnd(trimStart(t))

\* String.prototype.substring(0, end)
substring(t, end) ==
  SubSeq(t, 1, IF end < 0 THEN 0 ELSE IF end > Len(t) THEN Len(t) ELSE end)

\* faulty variant: the cut is one character late
generateTitleFromContent_late(t, m) ==
  LET cleaned == trim(replaceNewlines(t))
  IN IF Len(cleaned) <= m THEN cleaned
     ELSE trim(substring(cleaned, m + 1)) \o Ellipsis

generateTitleFromContent(t, m) ==
  LET cleaned == trim(replaceNewlines(t))
  IN IF Len(cleaned) <= m THEN cleaned
     ELSE trim(substring(cleaned, m)) \o Ellipsis

\* ------------------------------------------------------------------------
\* services/draftService.js
\* ------------------------------------------------------------------------
\* wire object -> Draft
mapDraft(draft) ==
  IF draft = NullDraft THEN NullDraft
  ELSE createDraft(
    [id |-> IF draft._id # NoId THEN draft._id ELSE draft.id,
     rawTranscript |-> draft.rawTranscript,
     aiRefinedText |-> draft.aiRefinedText,
     userEditedText |-> draft.userEditedText,
     tone |-> draft.tone,
     status |-> draft.status,
     scheduledAt |-> IF draft.scheduledAt = NoDate THEN NoDate
                     ELSE newDate(draft.scheduledAt)])

\* JSON.stringify of one draft followed by JSON.parse: a Date comes back as
\* its ISO string
JSONDraft(d) ==
  [d EXCEPT !.scheduledAt = IF d.scheduledAt.type = "Date"
                            THEN toISOString(d.scheduledAt)
                            ELSE d.scheduledAt]

\* JSON.stringify(drafts), the value kept under STORAGE_KEYS.DRAFTS_CACHE
JSONstringify(drafts) == MapSeq(drafts, JSONDraft)
\* JSON.parse(cached)
JSONparse(cached) == cached

\* ------------------------------------------------------------------------
\* context/DraftContext.js: initialState and draftReducer
\* ------------------------------------------------------------------------
initialState ==
  [drafts |-> <<>>,
   currentDraft |-> NullDraft,
   recentDraft |-> NullDraft,
   stats |-> [totalDrafts |-> 0, scheduledPosts |-> 0, publishedPosts |-> 0],
   isLoading |-> FALSE,
   isProcessing |-> FALSE,
   error |-> NULL,
   filter |-> "all"]

\* state.currentDraft?.id === id
CurrentHasId(s, id) == s.currentDraft # NullDraft /\ s.currentDraft.id = id

FETCH_DRAFTS_START(s) == [s EXCEPT !.isLoading = TRUE, !.error = NULL]

\* faulty variant of FETCH_DRAFTS_SUCCESS: the fetched list is merged in front
\* of the present list instead of replacing it
FETCH_DRAFTS_SUCCESS_merging(s, drafts) ==
  [s EXCEPT !.drafts = drafts \o s.drafts, !.isLoading = FALSE, !.error = NULL]

FETCH_DRAFTS_SUCCESS(s, drafts) ==
  [s EXCEPT !.drafts = drafts, !.isLoading = FALSE, !.error = NULL]

FETCH_DRAFTS_FAIL(s, error) == [s EXCEPT !.isLoading = FALSE, !.error = error]

SET_CURRENT_DRAFT(s, draft) == [s EXCEPT !.currentDraft = draft]

CLEAR_CURRENT_DRAFT(s) == [s EXCEPT !.currentDraft = NullDraft]

\* faulty variant of CREATE_DRAFT_SUCCESS: the new draft is appended
CREATE_DRAFT_SUCCESS_appending(s, draft) ==
  [s EXCEPT !.drafts = Append(s.drafts, draft),
            !.currentDraft = draft,
            !.recentDraft = draft,
            !.stats.totalDrafts = s.stats.totalDrafts + 1,
            !.isLoading = FALSE]

CREATE_DRAFT_SUCCESS(s, draft) ==
  [s EXCEPT !.drafts = <<draft>> \o s.drafts,
            !.currentDraft = draft,
            !.recentDraft = draft,
            !.stats.totalDrafts = s.stats.totalDrafts + 1,
            !.isLoading = FALSE]

\* faulty variant of UPDATE_DRAFT_SUCCESS: only the list is updated
UPDATE_DRAFT_SUCCESS_listOnly(s, draft) ==
  [s EXCEPT !.drafts = MapSeq(s.drafts, LAMBDA d : IF d.id = draft.id THEN draft ELSE d)]

UPDATE_DRAFT_SUCCESS(s, draft) ==
  [s EXCEPT !.drafts = MapSeq(s.drafts, LAMBDA d : IF d.id = draft.id THEN draft ELSE d),
            !.currentDraft = IF CurrentHasId(s, draft.id) THEN draft
                             ELSE s.currentDraft]

\* faulty variant of DELETE_DRAFT_SUCCESS: totalDrafts is not floored at zero
DELETE_DRAFT_SUCCESS_unfloored(s, draftId) ==
  [s EXCEPT !.drafts = FilterSeq(s.drafts, LAMBDA d : d.id # draftId),
            !.currentDraft = IF CurrentHasId(s, draftId) THEN NullDraft
                             ELSE s.currentDraft,
            !.stats.totalDrafts = s.stats.totalDrafts - 1]

DELETE_DRAFT_SUCCESS(s, draftId) ==
  [s EXCEPT !.drafts = FilterSeq(s.drafts, LAMBDA d : d.id # draftId),
            !.currentDraft = IF CurrentHasId(s, draftId) THEN NullDraft
                             ELSE s.currentDraft,
            !.stats.totalDrafts = Max(0, s.stats.totalDrafts - 1)]

PROCESS_VOICE_START(s) == [s EXCEPT !.isProcessing = TRUE, !.error = NULL]

PROCESS_VOICE_SUCCESS(s, draft) ==
  [s EXCEPT !.isProcessing = FALSE, !.currentDraft = draft]

\* faulty variant of PROCESS_VOICE_FAIL: the open draft is dropped
PROCESS_VOICE_FAIL_closing(s, error) ==
  [s EXCEPT !.isProcessing = FALSE, !.error = error, !.currentDraft = NullDraft]

PROCESS_VOICE_FAIL(s, error) ==
  [s EXCEPT !.isProcessing = FALSE, !.error = error]

SET_RECENT_DRAFT(s, draft) == [s EXCEPT !.recentDraft = draft]

SET_STATS(s, stats) == [s EXCEPT !.stats = stats]

SET_FILTER(s, filter) == [s EXCEPT !.filter = filter]

CLEAR_ERROR(s) == [s EXCEPT !.error = NULL]

\* faulty variant: "all" is compared with the status like any other filter
getFilteredDrafts_strict(s) ==
  FilterSeq(s.drafts, LAMBDA d : d.status = s.filter)

\* getFilteredDrafts
getFilteredDrafts(s) ==
  IF s.filter = "all" THEN s.drafts
  ELSE FilterSeq(s.drafts, LAMBDA d : d.status = s.filter)

\* ------------------------------------------------------------------------
\* State
\* ------------------------------------------------------------------------
VARIABLES
  state,       \* the reducer state of DraftProvider
  cache,       \* AsyncStorage value under STORAGE_KEYS.DRAFTS_CACHE
  server,      \* drafts held by the backend, by id
  nextId,      \* next id the backend assigns
  calls,       \* the asynchronous operations in flight, one per slot
  lastReturn,  \* value returned by the operation that completed last
  started      \* number of asynchronous operations started so far

\* components/VoiceRecorder.js and app/(tabs)/record.js
VARIABLES
  phase,                \* useState: phase of the recorder
  duration,             \* useState: duration counter, in ms
  errorMessage,         \* useState: message of the error card
  recordingRef,         \* useRef: the Audio.Recording in use, or none
  durationIntervalRef,  \* useRef: id of the duration interval, or none
  recordings,           \* the platform's Audio.Recording objects, by handle
  intervals,            \* the setInterval timers created by startRecording
  tasks,                \* invocations of the recorder's async functions in flight
  timeouts,             \* pending setTimeout callbacks of stopRecording
  fired,                \* callbacks the recorder has invoked on its parent
  screenPhase,          \* useState of RecordScreen: phase
  alertOpen,            \* the "Processing Failed" alert is on screen
  pressed               \* number of button presses so far

\* components/MediaPicker.js inside the editor screen
VARIABLES
  attachments,     \* useState of the editor: mediaAttachments
  uploadingIndex,  \* useState of MediaPicker: index being uploaded, or null
  pickers,         \* invocations of pickImage and pickVideo in flight
  uploaders        \* invocations of uploadAttachments in flight

\* models/Draft.js, generateTitleFromContent
VARIABLES
  content,       \* the text a title is generated from
  maxLength,  \* the maxLength argument
  titles      \* the titles generated so far, each from the one before

storeVars == <<state, cache, server, nextId, calls, lastReturn, started>>

uiVars == <<phase, duration, errorMessage, recordingRef, durationIntervalRef,
            recordings, intervals, tasks, timeouts, fired, screenPhase,
            alertOpen, pressed>>

pickerVars == <<attachments, uploadingIndex, pickers, uploaders>>

titleVars == <<content, maxLength, titles>>

vars == <<state, cache, server, nextId, calls, lastReturn, started,
          phase, duration, errorMessage, recordingRef, durationIntervalRef,
          recordings, intervals, tasks, timeouts, fired, screenPhase,
          alertOpen, pressed,
          attachments, uploadingIndex, pickers, uploaders,
          content, maxLength, titles>>

Idle == [op |-> "idle"]
Pending == [status |-> "pending"]
\* AsyncStorage.getItem of a key never written
NoItem == <<[type |-> "null"]>>

FreeSlot(c) ==
  /\ started < MaxOps
  /\ calls[c] = Idle
  /\ \A b \in Slots : b < c => calls[b] # Idle

\* ids the screens can name: those of listed drafts and of the open draft
KnownIds(s) ==
  {s.drafts[i].id : i \in 1..Len(s.drafts)}
    \cup (IF s.currentDraft # NullDraft THEN {s.currentDraft.id} ELSE {})

\* state.drafts.find((d) => d.id === draftId)
find(drafts, draftId) ==
  IF \E i \in 1..Len(drafts) : drafts[i].id = draftId
  THEN drafts[CHOOSE i \in 1..Len(drafts) :
                /\ drafts[i].id = draftId
                /\ \A j \in 1..(i - 1) : drafts[j].id # draftId]
  ELSE NullDraft

Return(op, success, error) ==
  [op |-> op, shape |-> "result", success |-> success, error |-> error]
ReturnArray(op, arr) ==
  [op |-> op, shape |-> "array", length |-> Len(arr)]

\* ------------------------------------------------------------------------
\* components/VoiceRecorder.js: values and initial state
\* ------------------------------------------------------------------------
\* utils/constants.js: RECORDING_CONFIG
MAX_DURATION_MS == 300000
MIN_DURATION_MS == 3000
\* period of the duration interval, and what one firing adds to duration
TickMs == 1000

PHASES == {"idle", "recording", "processing", "done", "error"}

\* utils/validators.js
validateRecordingDuration(durationMs) ==
  IF durationMs < MIN_DURATION_MS
  THEN [isValid |-> FALSE,
        error |-> "Recording too short. Speak for at least 3 seconds."]
  ELSE IF durationMs > MAX_DURATION_MS
  THEN [isValid |-> FALSE,
        error |-> "Recording too long. Maximum duration is 5 minutes."]
  ELSE [isValid |-> TRUE, error |-> NULL]

HandleIds == 1..MaxRecordings
TaskSlots == 1..MaxTasks
\* recordingRef.current === null, durationIntervalRef.current === null
NoHandle == 0
NoTask == [fn |-> "none"]

\* messages of the errors the recorder catches
PermissionError == "Microphone permission required"
PlatformError == "expo-av error"
TypeError == "Cannot read property 'getURI' of null"

InitRecorder ==
  /\ phase = "idle"
  /\ duration = 0
  /\ errorMessage = NULL
  /\ recordingRef = NoHandle
  /\ durationIntervalRef = NoHandle
  /\ recordings = [h \in HandleIds |-> [status |-> "none", releases |-> 0]]
  /\ intervals = [h \in HandleIds |-> [running |-> FALSE, d |-> 0]]
  /\ tasks = [k \in TaskSlots |-> NoTask]
  /\ timeouts = {}
  /\ fired = {}
  /\ screenPhase = "idle"
  /\ alertOpen = FALSE
  /\ pressed = 0

\* slots of the pickImage, pickVideo and uploadAttachments invocations
PickSlots == 1..MaxPicks

\* no attachment picked, no title generated

InitPicker ==
  /\ attachments = <<>>
  /\ uploadingIndex = NULL
  /\ pickers = [k \in PickSlots |-> NoTask]
  /\ uploaders = [k \in PickSlots |-> NoTask]

InitTitle ==
  /\ content = <<>>
  /\ maxLength = 0
  /\ titles = <<>>

\* The app starts with the reducer's initialState.  The backend may already
\* hold drafts of earlier sessions, and AsyncStorage the snapshot an earlier
\* session's fetchDrafts left behind.
InitialServer(k) ==
  [i \in DraftIds |->
     IF i <= k
     THEN [_id |-> i, id |-> NoId, rawTranscript |-> Transcript,
           aiRefinedText |-> RefinedText("Professional"),
           userEditedText |-> RefinedText("Professional"),
           tone |-> "Professional", status |-> "draft", scheduledAt |-> NoDate]
     ELSE NullDraft]

Init ==
  /\ state = initialState
  /\ \E k \in 0..MaxDrafts :
       /\ server = InitialServer(k)
       /\ nextId = k + 1
       /\ cache \in {NoItem,
                     JSONstringify([i \in 1..k |-> mapDraft(InitialServer(k)[k + 1 - i])])}
  /\ calls = [c \in Slots |-> Idle]
  /\ lastReturn = [op |-> "none"]
  /\ started = 0
  /\ InitRecorder
  /\ InitPicker
  /\ InitTitle

\* ------------------------------------------------------------------------
\* Backend behind api.js: the REST contract the gateway relies on
\* ------------------------------------------------------------------------
\* ids of the drafts on the backend, newest first, filtered by status
RECURSIVE IdsDown(_, _)
IdsDown(n, status) ==
  IF n = 0 THEN <<>>
  ELSE IF server[n] # NullDraft /\ (status = NULL \/ server[n].status = status)
       THEN <<n>> \o IdsDown(n - 1, status)
       ELSE IdsDown(n - 1, status)

ListDrafts(status, limit) ==
  LET ids == IdsDown(MaxDrafts, status)
  IN MapSeq(SubSeq(ids, 1, IF Len(ids) < limit THEN Len(ids) ELSE limit),
            LAMBDA n : server[n])

ServerStats ==
  [totalDrafts |-> Cardinality({n \in DraftIds : server[n] # NullDraft}),
   scheduledPosts |-> Cardinality({n \in DraftIds :
        server[n] # NullDraft /\ server[n].status = "scheduled"}),
   publishedPosts |-> Cardinality({n \in DraftIds :
        server[n] # NullDraft /\ server[n].status = "published"})]

\* PATCH semantics: a field absent from the body keeps its value
Patch(w, updates) ==
  [w EXCEPT !.tone = Default(updates.tone, w.tone),
            !.aiRefinedText = Default(updates.aiRefinedText, w.aiRefinedText),
            !.userEditedText = Default(updates.userEditedText, w.userEditedText)]

Ok(fields) == [status |-> "ok"] @@ fields
Rejected(message) == [status |-> "rejected", message |-> message]

\* a draft as the backend stores and returns it
WireDraft(n, body) ==
  [_id |-> n, id |-> NoId,
   rawTranscript |-> body.rawTranscript,
   aiRefinedText |-> body.aiRefinedText,
   userEditedText |-> body.userEditedText,
   tone |-> body.tone,
   status |-> body.status,
   scheduledAt |-> NoDate]

\* the backend answers the request of call c
BackendRespond(c) ==
  /\ calls[c] # Idle
  /\ calls[c].resp = Pending
  /\ LET req == calls[c].req
         reply(r) == calls' = [calls EXCEPT ![c].resp = r]
     IN
     CASE req.kind = "GET /drafts" ->
            /\ reply(Ok([drafts |-> ListDrafts(req.status, req.limit)]))
            /\ UNCHANGED <<server, nextId>>
       [] req.kind = "GET /drafts/stats" ->
            /\ reply(Ok([stats |-> ServerStats]))
            /\ UNCHANGED <<server, nextId>>
       [] req.kind = "POST /drafts" ->
            /\ nextId <= MaxDrafts
            /\ server' = [server EXCEPT ![nextId] = WireDraft(nextId, req.body)]
            /\ nextId' = nextId + 1
            /\ reply(Ok([draft |-> WireDraft(nextId, req.body)]))
       [] req.kind = "PATCH /drafts/:id" ->
            IF server[req.id] # NullDraft
            THEN /\ server' = [server EXCEPT ![req.id] = Patch(@, req.body)]
                 /\ reply(Ok([draft |-> Patch(server[req.id], req.body)]))
                 /\ UNCHANGED nextId
            ELSE /\ reply(Rejected(ApiError))
                 /\ UNCHANGED <<server, nextId>>
       [] req.kind = "DELETE /drafts/:id" ->
            IF server[req.id] # NullDraft
            THEN /\ server' = [server EXCEPT ![req.id] = NullDraft]
                 /\ reply(Ok([deleted |-> req.id]))
                 /\ UNCHANGED nextId
            ELSE /\ reply(Rejected(ApiError))
                 /\ UNCHANGED <<server, nextId>>
       [] req.kind = "POST /drafts/:id/schedule" ->
            IF server[req.id] # NullDraft /\ server[req.id].status # "published"
            THEN LET w == [server[req.id] EXCEPT !.status = "scheduled",
                                                 !.scheduledAt = req.scheduledAt]
                 IN /\ server' = [server EXCEPT ![req.id] = w]
                    /\ reply(Ok([draft |-> w]))
                    /\ UNCHANGED nextId
            ELSE /\ reply(Rejected(ApiError))
                 /\ UNCHANGED <<server, nextId>>
       [] req.kind = "POST /ai/process-voice" ->
            /\ reply(Ok([transcript |-> Transcript,
                         refinedText |-> RefinedText(req.tone)]))
            /\ UNCHANGED <<server, nextId>>
       [] req.kind = "POST /ai/change-tone" ->
            /\ reply(Ok([refinedText |-> RefinedText(req.newTone)]))
            /\ UNCHANGED <<server, nextId>>
  /\ UNCHANGED <<state, cache, lastReturn>>
  /\ UNCHANGED started
  /\ UNCHANGED <<uiVars, pickerVars, titleVars>>

\* the request of call c gets no answer: api.js rejects with NETWORK_ERROR
BackendFail(c) ==
  /\ calls[c] # Idle
  /\ calls[c].resp = Pending
  /\ calls' = [calls EXCEPT ![c].resp = Rejected(NetworkError)]
  /\ UNCHANGED <<state, cache, server, nextId, lastReturn>>
  /\ UNCHANGED started
  /\ UNCHANGED <<uiVars, pickerVars, titleVars>>

\* publishService.publishNow from the publish screen: the backend publishes
\* the draft; the store is not told
publishNow(draftId) ==
  /\ draftId \in KnownIds(state)
  /\ server[draftId] # NullDraft
  /\ server[draftId].status # "published"
  /\ server' = [server EXCEPT ![draftId].status = "published",
                              ![draftId].scheduledAt = NoDate]
  /\ UNCHANGED <<state, cache, nextId, calls, lastReturn>>
  /\ UNCHANGED started
  /\ UNCHANGED <<uiVars, pickerVars, titleVars>>

\* ------------------------------------------------------------------------
\* DraftProvider: fetchDrafts
\* ------------------------------------------------------------------------
\* storage marker of a call that waits for AsyncStorage, not for the backend
Storage == [status |-> "storage"]

fetchDrafts_call(c, filter) ==
  /\ FreeSlot(c)
  /\ state' = FETCH_DRAFTS_START(state)
  /\ calls' = [calls EXCEPT ![c] =
       [op |-> "fetchDrafts", pc |-> "getDrafts",
        req |-> [kind |-> "GET /drafts", limit |-> 50,
                 status |-> IF filter = "all" THEN NULL ELSE filter],
        resp |-> Pending]]
  /\ UNCHANGED <<cache, server, nextId, lastReturn>>
  /\ started' = started + 1
  /\ UNCHANGED <<uiVars, pickerVars, titleVars>>

\* api.get resolved inside draftService.getDrafts: map, then cacheDrafts
fetchDrafts_mapped(c) ==
  /\ calls[c] # Idle
  /\ calls[c].op = "fetchDrafts" /\ calls[c].pc = "getDrafts"
  /\ calls[c].resp.status = "ok"
  /\ calls' = [calls EXCEPT ![c] =
       [op |-> "fetchDrafts", pc |-> "cacheDrafts",
        drafts |-> FilterSeq(MapSeq(calls[c].resp.drafts, mapDraft),
                             LAMBDA d : d # NullDraft),
        resp |-> Storage]]
  /\ UNCHANGED <<state, cache, server, nextId, lastReturn>>
  /\ UNCHANGED started
  /\ UNCHANGED <<uiVars, pickerVars, titleVars>>

\* AsyncStorage.setItem settled (a failure is swallowed by cacheDrafts);
\* getDrafts returns and fetchDrafts dispatches FETCH_DRAFTS_SUCCESS
fetchDrafts_success(c, written) ==
  /\ calls[c] # Idle
  /\ calls[c].op = "fetchDrafts" /\ calls[c].pc = "cacheDrafts"
  /\ cache' = IF written THEN JSONstringify(calls[c].drafts) ELSE cache
  /\ state' = FETCH_DRAFTS_SUCCESS(state, calls[c].drafts)
  /\ lastReturn' = ReturnArray("fetchDrafts", calls[c].drafts)
  /\ calls' = [calls EXCEPT ![c] = Idle]
  /\ UNCHANGED <<server, nextId>>
  /\ UNCHANGED started
  /\ UNCHANGED <<uiVars, pickerVars, titleVars>>

\* getDrafts rejected: FETCH_DRAFTS_FAIL, then getCachedDrafts is awaited
fetchDrafts_catch(c) ==
  /\ calls[c] # Idle
  /\ calls[c].op = "fetchDrafts" /\ calls[c].pc = "getDrafts"
  /\ calls[c].resp.status = "rejected"
  /\ state' = FETCH_DRAFTS_FAIL(state, calls[c].resp.message)
  /\ calls' = [calls EXCEPT ![c] =
       [op |-> "fetchDrafts", pc |-> "getCachedDrafts", resp |-> Storage]]
  /\ UNCHANGED <<cache, server, nextId, lastReturn>>
  /\ UNCHANGED started
  /\ UNCHANGED <<uiVars, pickerVars, titleVars>>

\* draftService.getCachedDrafts: the parsed snapshot, [] when the key is
\* missing or AsyncStorage.getItem throws
getCachedDrafts(readable) ==
  IF readable /\ cache # NoItem THEN JSONparse(cache) ELSE <<>>

\* faulty variant: a fallback that found nothing to show clears the cache
fetchDrafts_fallback_clearing(c, readable) ==
  /\ calls[c] # Idle
  /\ calls[c].op = "fetchDrafts" /\ calls[c].pc = "getCachedDrafts"
  /\ LET cached == getCachedDrafts(readable)
     IN /\ state' = IF Len(cached) > 0 THEN FETCH_DRAFTS_SUCCESS(state, cached)
                    ELSE state
        /\ cache' = IF Len(cached) > 0 THEN cache ELSE NoItem
  /\ lastReturn' = ReturnArray("fetchDrafts", <<>>)
  /\ calls' = [calls EXCEPT ![c] = Idle]
  /\ UNCHANGED <<server, nextId>>
  /\ UNCHANGED started
  /\ UNCHANGED <<uiVars, pickerVars, titleVars>>

\* getCachedDrafts settled: the cached list is dispatched when non-empty
fetchDrafts_fallback(c, readable) ==
  /\ calls[c] # Idle
  /\ calls[c].op = "fetchDrafts" /\ calls[c].pc = "getCachedDrafts"
  /\ LET cached == getCachedDrafts(readable)
     IN state' = IF Len(cached) > 0 THEN FETCH_DRAFTS_SUCCESS(state, cached)
                 ELSE state
  /\ lastReturn' = ReturnArray("fetchDrafts", <<>>)
  /\ calls' = [calls EXCEPT ![c] = Idle]
  /\ UNCHANGED <<cache, server, nextId>>
  /\ UNCHANGED started
  /\ UNCHANGED <<uiVars, pickerVars, titleVars>>

\* ------------------------------------------------------------------------
\* DraftProvider: processVoiceRecording
\* ------------------------------------------------------------------------
processVoiceRecording_begin(c, tone) ==
  /\ FreeSlot(c)
  /\ state' = PROCESS_VOICE_START(state)
  /\ calls' = [calls EXCEPT ![c] =
       [op |-> "processVoiceRecording", pc |-> "processVoicePost", tone |-> tone,
        req |-> [kind |-> "POST /ai/process-voice", tone |-> tone],
        resp |-> Pending]]
  /\ UNCHANGED <<cache, server, nextId, lastReturn>>
  /\ started' = started + 1

\* processVoiceRecording called by a screen other than the recorder's
processVoiceRecording_call(c, tone) ==
  /\ processVoiceRecording_begin(c, tone)
  /\ UNCHANGED <<uiVars, pickerVars, titleVars>>

\* body of POST /drafts built by draftService.createDraft
createDraftBody(rawTranscript, aiRefinedText, tone) ==
  [rawTranscript |-> rawTranscript,
   aiRefinedText |-> aiRefinedText,
   userEditedText |-> aiRefinedText,
   tone |-> tone,
   status |-> "draft"]

\* processVoicePost resolved: draftService.createDraft is called
processVoiceRecording_create(c) ==
  /\ calls[c] # Idle
  /\ calls[c].op = "processVoiceRecording" /\ calls[c].pc = "processVoicePost"
  /\ calls[c].resp.status = "ok"
  /\ calls' = [calls EXCEPT ![c] =
       [op |-> "processVoiceRecording", pc |-> "createDraft", tone |-> calls[c].tone,
        req |-> [kind |-> "POST /drafts",
                 body |-> createDraftBody(calls[c].resp.transcript,
                                          calls[c].resp.refinedText,
                                          calls[c].tone)],
        resp |-> Pending]]
  /\ UNCHANGED <<state, cache, server, nextId, lastReturn>>
  /\ UNCHANGED started
  /\ UNCHANGED <<uiVars, pickerVars, titleVars>>

\* createDraft resolved: PROCESS_VOICE_SUCCESS then CREATE_DRAFT_SUCCESS
processVoiceRecording_resolved(c) ==
  /\ calls[c] # Idle
  /\ calls[c].op = "processVoiceRecording" /\ calls[c].pc = "createDraft"
  /\ calls[c].resp.status = "ok"
  /\ LET draft == mapDraft(calls[c].resp.draft)
     IN state' = CREATE_DRAFT_SUCCESS(PROCESS_VOICE_SUCCESS(state, draft), draft)
  /\ lastReturn' = Return("processVoiceRecording", TRUE, NULL)
  /\ calls' = [calls EXCEPT ![c] = Idle]
  /\ UNCHANGED <<cache, server, nextId>>
  /\ UNCHANGED started

\* processVoiceRecording called by a screen other than the recorder's
processVoiceRecording_success(c) ==
  /\ processVoiceRecording_resolved(c)
  /\ UNCHANGED <<uiVars, pickerVars, titleVars>>

\* either awaited call rejected: PROCESS_VOICE_FAIL
processVoiceRecording_rejected(c) ==
  /\ calls[c] # Idle
  /\ calls[c].op = "processVoiceRecording"
  /\ calls[c].resp.status = "rejected"
  /\ state' = PROCESS_VOICE_FAIL(state, calls[c].resp.message)
  /\ lastReturn' = Return("processVoiceRecording", FALSE, calls[c].resp.message)
  /\ calls' = [calls EXCEPT ![c] = Idle]
  /\ UNCHANGED <<cache, server, nextId>>
  /\ UNCHANGED started

\* processVoiceRecording called by a screen other than the recorder's
processVoiceRecording_catch(c) ==
  /\ processVoiceRecording_rejected(c)
  /\ UNCHANGED <<uiVars, pickerVars, titleVars>>

\* ------------------------------------------------------------------------
\* DraftProvider: updateDraftText, saveDraft, updateDraftTone
\* ------------------------------------------------------------------------
\* request issued by draftService.updateDraft
updateDraftRequest(draftId, updates) ==
  [kind |-> "PATCH /drafts/:id", id |-> draftId, body |-> updates]

updateDraftText_call(c, draftId, text) ==
  /\ FreeSlot(c)
  /\ draftId \in KnownIds(state)
  /\ calls' = [calls EXCEPT ![c] =
       [op |-> "updateDraftText", pc |-> "updateDraft", draftId |-> draftId,
        req |-> updateDraftRequest(draftId,
                  [tone |-> Undefined, aiRefinedText |-> Undefined,
                   userEditedText |-> text]),
        resp |-> Pending]]
  /\ UNCHANGED <<state, cache, server, nextId, lastReturn>>
  /\ started' = started + 1
  /\ UNCHANGED <<uiVars, pickerVars, titleVars>>

saveDraft_call(c, draftId, updates) ==
  /\ FreeSlot(c)
  /\ draftId \in KnownIds(state)
  /\ calls' = [calls EXCEPT ![c] =
       [op |-> "saveDraft", pc |-> "updateDraft", draftId |-> draftId,
        req |-> updateDraftRequest(draftId, updates),
        resp |-> Pending]]
  /\ UNCHANGED <<state, cache, server, nextId, lastReturn>>
  /\ started' = started + 1
  /\ UNCHANGED <<uiVars, pickerVars, titleVars>>

\* const draft = state.drafts.find(...) || state.currentDraft
locateDraft(s, draftId) ==
  IF find(s.drafts, draftId) # NullDraft THEN find(s.drafts, draftId)
  ELSE s.currentDraft

\* text handed to aiService.changeTone
changeToneText(draft) == OrElse(draft.userEditedText, draft.aiRefinedText)

updateDraftTone_call(c, draftId, newTone) ==
  /\ FreeSlot(c)
  /\ draftId \in KnownIds(state)
  /\ LET draft == locateDraft(state, draftId)
     IN IF draft = NullDraft
        THEN /\ lastReturn' = Return("updateDraftTone", FALSE, "Draft not found")
             /\ UNCHANGED calls
        ELSE /\ calls' = [calls EXCEPT ![c] =
                  [op |-> "updateDraftTone", pc |-> "changeTone",
                   draftId |-> draftId, newTone |-> newTone,
                   req |-> [kind |-> "POST /ai/change-tone",
                            text |-> changeToneText(draft), newTone |-> newTone],
                   resp |-> Pending]]
             /\ UNCHANGED lastReturn
  /\ UNCHANGED <<state, cache, server, nextId>>
  /\ started' = started + 1
  /\ UNCHANGED <<uiVars, pickerVars, titleVars>>

\* faulty variant of toneUpdates: the user's edit is left in place
toneUpdates_keepingEdit(newTone, refinedText) ==
  [tone |-> newTone, aiRefinedText |-> refinedText, userEditedText |-> Undefined]

\* fields updateDraftTone persists after the re-refinement
toneUpdates(newTone, refinedText) ==
  [tone |-> newTone, aiRefinedText |-> refinedText, userEditedText |-> refinedText]

\* changeTone resolved: draftService.updateDraft is called
updateDraftTone_update(c) ==
  /\ calls[c] # Idle
  /\ calls[c].op = "updateDraftTone" /\ calls[c].pc = "changeTone"
  /\ calls[c].resp.status = "ok"
  /\ calls' = [calls EXCEPT ![c] =
       [op |-> "updateDraftTone", pc |-> "updateDraft",
        draftId |-> calls[c].draftId, newTone |-> calls[c].newTone,
        refinedText |-> calls[c].resp.refinedText,
        req |-> updateDraftRequest(calls[c].draftId,
                  toneUpdates(calls[c].newTone, calls[c].resp.refinedText)),
        resp |-> Pending]]
  /\ UNCHANGED <<state, cache, server, nextId, lastReturn>>
  /\ UNCHANGED started
  /\ UNCHANGED <<uiVars, pickerVars, titleVars>>

\* updateDraft resolved in updateDraftText, saveDraft or updateDraftTone:
\* UPDATE_DRAFT_SUCCESS with the mapped draft
\* faulty variant: the response of an update is dropped while another
\* operation on the same draft is in flight
updateDraft_success_dropping(c) ==
  /\ calls[c] # Idle
  /\ calls[c].op \in {"updateDraftText", "saveDraft", "updateDraftTone"}
  /\ calls[c].pc = "updateDraft"
  /\ calls[c].resp.status = "ok"
  /\ state' = IF \E c2 \in Slots \ {c} :
                   calls[c2] # Idle /\ calls[c2].op \in {"updateDraftText", "saveDraft",
                                                         "updateDraftTone", "scheduleDraft"}
                   /\ calls[c2].draftId = calls[c].draftId
              THEN state
              ELSE UPDATE_DRAFT_SUCCESS(state, mapDraft(calls[c].resp.draft))
  /\ lastReturn' = Return(calls[c].op, TRUE, NULL)
  /\ calls' = [calls EXCEPT ![c] = Idle]
  /\ UNCHANGED <<cache, server, nextId>>
  /\ UNCHANGED started
  /\ UNCHANGED <<uiVars, pickerVars, titleVars>>

updateDraft_success(c) ==
  /\ calls[c] # Idle
  /\ calls[c].op \in {"updateDraftText", "saveDraft", "updateDraftTone"}
  /\ calls[c].pc = "updateDraft"
  /\ calls[c].resp.status = "ok"
  /\ state' = UPDATE_DRAFT_SUCCESS(state, mapDraft(calls[c].resp.draft))
  /\ lastReturn' = Return(calls[c].op, TRUE, NULL)
  /\ calls' = [calls EXCEPT ![c] = Idle]
  /\ UNCHANGED <<cache, server, nextId>>
  /\ UNCHANGED started
  /\ UNCHANGED <<uiVars, pickerVars, titleVars>>

\* faulty variant of update_catch: a deleteDraft that failed removes the draft
\* from the store all the same
update_catch_removing(c) ==
  /\ calls[c] # Idle
  /\ calls[c].op \in {"updateDraftText", "saveDraft", "updateDraftTone",
                      "scheduleDraft", "deleteDraft"}
  /\ calls[c].resp.status = "rejected"
  /\ lastReturn' = Return(calls[c].op, FALSE, calls[c].resp.message)
  /\ calls' = [calls EXCEPT ![c] = Idle]
  /\ state' = IF calls[c].op = "deleteDraft"
              THEN DELETE_DRAFT_SUCCESS(state, calls[c].draftId)
              ELSE state
  /\ UNCHANGED <<cache, server, nextId>>
  /\ UNCHANGED started
  /\ UNCHANGED <<uiVars, pickerVars, titleVars>>

\* catch block shared by updateDraftText, saveDraft, updateDraftTone,
\* scheduleDraft and deleteDraft: nothing is dispatched
update_catch(c) ==
  /\ calls[c] # Idle
  /\ calls[c].op \in {"updateDraftText", "saveDraft", "updateDraftTone",
                      "scheduleDraft", "deleteDraft"}
  /\ calls[c].resp.status = "rejected"
  /\ lastReturn' = Return(calls[c].op, FALSE, calls[c].resp.message)
  /\ calls' = [calls EXCEPT ![c] = Idle]
  /\ UNCHANGED <<state, cache, server, nextId>>
  /\ UNCHANGED started
  /\ UNCHANGED <<uiVars, pickerVars, titleVars>>

\* ------------------------------------------------------------------------
\* DraftProvider: scheduleDraft, deleteDraft
\* ------------------------------------------------------------------------
\* the callback closes over state.stats of the render it was created in
scheduleDraft_call(c, draftId, scheduledAt) ==
  /\ FreeSlot(c)
  /\ draftId \in KnownIds(state)
  /\ state.stats.scheduledPosts < MaxCount
  /\ calls' = [calls EXCEPT ![c] =
       [op |-> "scheduleDraft", pc |-> "scheduleDraft", draftId |-> draftId,
        stats |-> state.stats,
        req |-> [kind |-> "POST /drafts/:id/schedule", id |-> draftId,
                 scheduledAt |-> toISOString(scheduledAt)],
        resp |-> Pending]]
  /\ UNCHANGED <<state, cache, server, nextId, lastReturn>>
  /\ started' = started + 1
  /\ UNCHANGED <<uiVars, pickerVars, titleVars>>

\* payload of the SET_STATS dispatched by scheduleDraft
scheduledStats(stats) == [stats EXCEPT !.scheduledPosts = stats.scheduledPosts + 1]

scheduleDraft_success(c) ==
  /\ calls[c] # Idle
  /\ calls[c].op = "scheduleDraft"
  /\ calls[c].resp.status = "ok"
  /\ state' = SET_STATS(UPDATE_DRAFT_SUCCESS(state, mapDraft(calls[c].resp.draft)),
                        scheduledStats(calls[c].stats))
  /\ lastReturn' = Return("scheduleDraft", TRUE, NULL)
  /\ calls' = [calls EXCEPT ![c] = Idle]
  /\ UNCHANGED <<cache, server, nextId>>
  /\ UNCHANGED started
  /\ UNCHANGED <<uiVars, pickerVars, titleVars>>

deleteDraft_call(c, draftId) ==
  /\ FreeSlot(c)
  /\ draftId \in KnownIds(state)
  /\ calls' = [calls EXCEPT ![c] =
       [op |-> "deleteDraft", pc |-> "deleteDraft", draftId |-> draftId,
        req |-> [kind |-> "DELETE /drafts/:id", id |-> draftId],
        resp |-> Pending]]
  /\ UNCHANGED <<state, cache, server, nextId, lastReturn>>
  /\ started' = started + 1
  /\ UNCHANGED <<uiVars, pickerVars, titleVars>>

deleteDraft_success(c) ==
  /\ calls[c] # Idle
  /\ calls[c].op = "deleteDraft"
  /\ calls[c].resp.status = "ok"
  /\ state' = DELETE_DRAFT_SUCCESS(state, calls[c].draftId)
  /\ lastReturn' = Return("deleteDraft", TRUE, NULL)
  /\ calls' = [calls EXCEPT ![c] = Idle]
  /\ UNCHANGED <<cache, server, nextId>>
  /\ UNCHANGED started
  /\ UNCHANGED <<uiVars, pickerVars, titleVars>>

\* ------------------------------------------------------------------------
\* DraftProvider: loadInitialData (effect run when isAuthenticated turns true)
\* ------------------------------------------------------------------------
loadInitialData_call(c) ==
  /\ FreeSlot(c)
  /\ calls' = [calls EXCEPT ![c] =
       [op |-> "loadInitialData", pc |-> "getStats",
        req |-> [kind |-> "GET /drafts/stats"],
        resp |-> Pending]]
  /\ UNCHANGED <<state, cache, server, nextId, lastReturn>>
  /\ started' = started + 1
  /\ UNCHANGED <<uiVars, pickerVars, titleVars>>

\* getStats resolved: SET_STATS, then getRecentDraft is awaited
loadInitialData_stats(c) ==
  /\ calls[c] # Idle
  /\ calls[c].op = "loadInitialData" /\ calls[c].pc = "getStats"
  /\ calls[c].resp.status = "ok"
  /\ state' = SET_STATS(state, calls[c].resp.stats)
  /\ calls' = [calls EXCEPT ![c] =
       [op |-> "loadInitialData", pc |-> "getRecentDraft",
        req |-> [kind |-> "GET /drafts", limit |-> 1, status |-> "draft"],
        resp |-> Pending]]
  /\ UNCHANGED <<cache, server, nextId, lastReturn>>
  /\ UNCHANGED started
  /\ UNCHANGED <<uiVars, pickerVars, titleVars>>

\* draftService.getRecentDraft: first draft of the answer, null when the
\* list is empty or the request failed
getRecentDraft(resp) ==
  IF resp.status = "ok" /\ Len(resp.drafts) > 0 THEN mapDraft(resp.drafts[1])
  ELSE NullDraft

\* getRecentDraft settled: SET_RECENT_DRAFT when a draft came back
loadInitialData_recent(c) ==
  /\ calls[c] # Idle
  /\ calls[c].op = "loadInitialData" /\ calls[c].pc = "getRecentDraft"
  /\ calls[c].resp # Pending
  /\ LET recentDraft == getRecentDraft(calls[c].resp)
     IN state' = IF recentDraft # NullDraft THEN SET_RECENT_DRAFT(state, recentDraft)
                 ELSE state
  /\ calls' = [calls EXCEPT ![c] = Idle]
  /\ UNCHANGED <<cache, server, nextId, lastReturn>>
  /\ UNCHANGED started
  /\ UNCHANGED <<uiVars, pickerVars, titleVars>>

\* getStats rejected: the error is logged and nothing is dispatched
loadInitialData_catch(c) ==
  /\ calls[c] # Idle
  /\ calls[c].op = "loadInitialData" /\ calls[c].pc = "getStats"
  /\ calls[c].resp.status = "rejected"
  /\ calls' = [calls EXCEPT ![c] = Idle]
  /\ UNCHANGED <<state, cache, server, nextId, lastReturn>>
  /\ UNCHANGED started
  /\ UNCHANGED <<uiVars, pickerVars, titleVars>>

\* ------------------------------------------------------------------------
\* DraftProvider: synchronous operations
\* ------------------------------------------------------------------------
Filters == {"all", "draft", "scheduled", "published"}

\* the screens pass a draft of the list
setCurrentDraft(i) ==
  /\ i \in 1..Len(state.drafts)
  /\ state' = SET_CURRENT_DRAFT(state, state.drafts[i])
  /\ UNCHANGED <<cache, server, nextId, calls, lastReturn>>
  /\ UNCHANGED started
  /\ UNCHANGED <<uiVars, pickerVars, titleVars>>

clearCurrentDraft ==
  /\ state' = CLEAR_CURRENT_DRAFT(state)
  /\ UNCHANGED <<cache, server, nextId, calls, lastReturn>>
  /\ UNCHANGED started
  /\ UNCHANGED <<uiVars, pickerVars, titleVars>>

setFilter(filter) ==
  /\ state' = SET_FILTER(state, filter)
  /\ UNCHANGED <<cache, server, nextId, calls, lastReturn>>
  /\ UNCHANGED started
  /\ UNCHANGED <<uiVars, pickerVars, titleVars>>

clearError ==
  /\ state' = CLEAR_ERROR(state)
  /\ UNCHANGED <<cache, server, nextId, calls, lastReturn>>
  /\ UNCHANGED started
  /\ UNCHANGED <<uiVars, pickerVars, titleVars>>

\* ------------------------------------------------------------------------
\* Specification of the store: the asynchronous operations with the backend
\* and the cache, and the synchronous operations on the open draft and the
\* error.  setFilter only writes state.filter, which no action of the store
\* reads, and publishNow only acts on the backend; both are left to the
\* specifications that study them.
\* ------------------------------------------------------------------------
Next ==
  \/ \E c \in Slots : BackendRespond(c)
  \/ \E c \in Slots : BackendFail(c)
  \/ \E c \in Slots, f \in {NULL} \cup Filters : fetchDrafts_call(c, f)
  \/ \E c \in Slots : fetchDrafts_mapped(c)
  \/ \E c \in Slots, written \in BOOLEAN : fetchDrafts_success(c, written)
  \/ \E c \in Slots : fetchDrafts_catch(c)
  \/ \E c \in Slots, readable \in BOOLEAN : fetchDrafts_fallback(c, readable)
  \/ \E c \in Slots, tone \in RecordTones : processVoiceRecording_call(c, tone)
  \/ \E c \in Slots : processVoiceRecording_create(c)
  \/ \E c \in Slots : processVoiceRecording_success(c)
  \/ \E c \in Slots : processVoiceRecording_catch(c)
  \/ \E c \in Slots, n \in DraftIds, t \in EditTexts : updateDraftText_call(c, n, t)
  \/ \E c \in Slots, n \in DraftIds, t \in EditTexts, tone \in Tones :
        saveDraft_call(c, n, [tone |-> tone, aiRefinedText |-> Undefined,
                              userEditedText |-> t])
  \/ \E c \in Slots, n \in DraftIds, tone \in Tones : updateDraftTone_call(c, n, tone)
  \/ \E c \in Slots : updateDraftTone_update(c)
  \/ \E c \in Slots : updateDraft_success(c)
  \/ \E c \in Slots : update_catch(c)
  \/ \E c \in Slots, n \in DraftIds, t \in ScheduleTimes :
        scheduleDraft_call(c, n, DateOf(t))
  \/ \E c \in Slots : scheduleDraft_success(c)
  \/ \E c \in Slots, n \in DraftIds : deleteDraft_call(c, n)
  \/ \E c \in Slots : deleteDraft_success(c)
  \/ \E c \in Slots : loadInitialData_call(c)
  \/ \E c \in Slots : loadInitialData_stats(c)
  \/ \E c \in Slots : loadInitialData_recent(c)
  \/ \E c \in Slots : loadInitialData_catch(c)
  \/ \E i \in 1..MaxDrafts : setCurrentDraft(i)
  \/ clearCurrentDraft
  \/ clearError

Spec == Init /\ [][Next]_vars

\* the store operations that schedule, with the fetch that lists the drafts:
\* nothing but scheduleDraft writes stats
NextSchedule ==
  \/ \E c \in Slots : BackendRespond(c)
  \/ \E c \in Slots : BackendFail(c)
  \/ \E c \in Slots, f \in {NULL} \cup Filters : fetchDrafts_call(c, f)
  \/ \E c \in Slots : fetchDrafts_mapped(c)
  \/ \E c \in Slots, written \in BOOLEAN : fetchDrafts_success(c, written)
  \/ \E c \in Slots : fetchDrafts_catch(c)
  \/ \E c \in Slots, readable \in BOOLEAN : fetchDrafts_fallback(c, readable)
  \/ \E c \in Slots, n \in DraftIds, t \in ScheduleTimes :
        scheduleDraft_call(c, n, DateOf(t))
  \/ \E c \in Slots : scheduleDraft_success(c)
  \/ \E c \in Slots : update_catch(c)

SpecSchedule == Init /\ [][NextSchedule]_vars

\* ------------------------------------------------------------------------
\* Tone change on drafts with any combination of empty and non-empty text
\* ------------------------------------------------------------------------
\* a draft an earlier session stored, with the given three text stages
StoredDraft(rawTranscript, aiRefinedText, userEditedText) ==
  [_id |-> 1, id |-> NoId, rawTranscript |-> rawTranscript,
   aiRefinedText |-> aiRefinedText, userEditedText |-> userEditedText,
   tone |-> "Professional", status |-> "draft", scheduledAt |-> NoDate]

\* the backend holds one draft; each of its text stages is empty or not
InitTone ==
  /\ state = initialState
  /\ \E raw \in {"", Transcript}, ai \in {"", RefinedText("Professional")},
        ue \in {""} \cup EditTexts :
       server = [i \in DraftIds |-> IF i = 1 THEN StoredDraft(raw, ai, ue)
                                    ELSE NullDraft]
  /\ nextId = 2
  /\ cache = NoItem
  /\ calls = [c \in Slots |-> Idle]
  /\ lastReturn = [op |-> "none"]
  /\ started = 0
  /\ InitRecorder
  /\ InitPicker
  /\ InitTitle

NextTone ==
  \/ \E c \in Slots : BackendRespond(c)
  \/ \E c \in Slots : BackendFail(c)
  \/ \E c \in Slots, f \in {NULL} : fetchDrafts_call(c, f)
  \/ \E c \in Slots : fetchDrafts_mapped(c)
  \/ \E c \in Slots, written \in BOOLEAN : fetchDrafts_success(c, written)
  \/ \E c \in Slots : fetchDrafts_catch(c)
  \/ \E c \in Slots, readable \in BOOLEAN : fetchDrafts_fallback(c, readable)
  \/ \E c \in Slots, n \in DraftIds, tone \in Tones : updateDraftTone_call(c, n, tone)
  \/ \E c \in Slots : updateDraftTone_update(c)
  \/ \E c \in Slots : updateDraft_success(c)
  \/ \E c \in Slots : update_catch(c)

SpecTone == InitTone /\ [][NextTone]_vars


\* ------------------------------------------------------------------------
\* Display text of drafts whose wire objects lack text fields
\* ------------------------------------------------------------------------
\* the backend holds one draft; each of its text stages is absent, empty or
\* not empty
InitDisplay ==
  /\ state = initialState
  /\ \E raw \in {Undefined, "", Transcript},
        ai \in {Undefined, "", RefinedText("Professional")},
        ue \in {Undefined, ""} \cup EditTexts :
       server = [i \in DraftIds |-> IF i = 1 THEN StoredDraft(raw, ai, ue)
                                    ELSE NullDraft]
  /\ nextId = 2
  /\ cache = NoItem
  /\ calls = [c \in Slots |-> Idle]
  /\ lastReturn = [op |-> "none"]
  /\ started = 0
  /\ InitRecorder
  /\ InitPicker
  /\ InitTitle

SpecDisplay == InitDisplay /\ [][NextTone]_vars

\* ------------------------------------------------------------------------
\* Publishing from the publish screen beside the store's fetch and save
\* ------------------------------------------------------------------------
NextPublish ==
  \/ \E c \in Slots : BackendRespond(c)
  \/ \E c \in Slots : BackendFail(c)
  \/ \E c \in Slots, f \in {NULL} : fetchDrafts_call(c, f)
  \/ \E c \in Slots : fetchDrafts_mapped(c)
  \/ \E c \in Slots, written \in BOOLEAN : fetchDrafts_success(c, written)
  \/ \E c \in Slots : fetchDrafts_catch(c)
  \/ \E c \in Slots, readable \in BOOLEAN : fetchDrafts_fallback(c, readable)
  \/ \E c \in Slots, n \in DraftIds, t \in EditTexts :
        saveDraft_call(c, n, [tone |-> Undefined, aiRefinedText |-> Undefined,
                              userEditedText |-> t])
  \/ \E c \in Slots : updateDraft_success(c)
  \/ \E c \in Slots : update_catch(c)
  \/ \E i \in 1..MaxDrafts : setCurrentDraft(i)
  \/ \E n \in DraftIds : publishNow(n)

SpecPublish == Init /\ [][NextPublish]_vars


\* ------------------------------------------------------------------------
\* The drafts screen's filter beside the operations that change the list
\* and the status of its drafts
\* ------------------------------------------------------------------------
NextFilter ==
  \/ \E c \in Slots : BackendRespond(c)
  \/ \E c \in Slots : BackendFail(c)
  \/ \E c \in Slots, f \in {NULL} \cup Filters : fetchDrafts_call(c, f)
  \/ \E c \in Slots : fetchDrafts_mapped(c)
  \/ \E c \in Slots, written \in BOOLEAN : fetchDrafts_success(c, written)
  \/ \E c \in Slots : fetchDrafts_catch(c)
  \/ \E c \in Slots, readable \in BOOLEAN : fetchDrafts_fallback(c, readable)
  \/ \E c \in Slots, n \in DraftIds, t \in ScheduleTimes :
        scheduleDraft_call(c, n, DateOf(t))
  \/ \E c \in Slots : scheduleDraft_success(c)
  \/ \E c \in Slots : update_catch(c)
  \/ \E n \in DraftIds : publishNow(n)
  \/ \E f \in Filters : setFilter(f)

SpecFilter == Init /\ [][NextFilter]_vars

\* ------------------------------------------------------------------------
\* components/VoiceRecorder.js
\*
\* Each invocation of startRecording, stopRecording or cancelRecording is a
\* task; an action is the code such an invocation runs between two awaits.
\* A function reads the duration of the render it was created in: a button
\* calls the function of the latest render, the duration interval calls the
\* stopRecording of the render in which startRecording was called.  The
\* platform decides whether an expo-av call resolves or rejects.
\* ------------------------------------------------------------------------
FreeTasks == {k \in TaskSlots : tasks[k] = NoTask}
\* slot of the next invocation
NextTask == CHOOSE k \in FreeTasks : \A j \in FreeTasks : k <= j

UnusedHandles == {h \in HandleIds : recordings[h].status = "none"}
\* handle of the next new Audio.Recording()
NewHandle == CHOOSE h \in UnusedHandles : \A g \in UnusedHandles : h <= g
\* invocations of startRecording that have not created their recording yet
StartsBeforeNew ==
  {k \in TaskSlots : tasks[k].fn = "startRecording"
                     /\ tasks[k].pc = "requestPermissionsAsync"}

\* clearInterval(id)
clearInterval(id) ==
  IF id # NoHandle THEN [intervals EXCEPT ![id].running = FALSE] ELSE intervals

\* catch (error) of startRecording and stopRecording: the error card, and
\* onError, which RecordScreen answers with setPhase('idle')
Caught(h, message) ==
  /\ errorMessage' = message
  /\ phase' = "error"
  /\ fired' = fired \cup {[cb |-> "onError", h |-> h]}
  /\ screenPhase' = "idle"

\* handlePress in phase idle or error: startRecording up to its first await
handlePress_start ==
  /\ phase \in {"idle", "error"}
  /\ pressed < MaxPresses
  /\ FreeTasks # {}
  /\ Cardinality(UnusedHandles) > Cardinality(StartsBeforeNew)
  /\ errorMessage' = NULL
  /\ tasks' = [tasks EXCEPT ![NextTask] =
       [fn |-> "startRecording", pc |-> "requestPermissionsAsync",
        h |-> NoHandle, d |-> duration]]
  /\ pressed' = pressed + 1
  /\ UNCHANGED <<phase, duration, recordingRef, durationIntervalRef, recordings,
                 intervals, timeouts, fired, screenPhase, alertOpen>>
  /\ UNCHANGED <<storeVars, pickerVars, titleVars>>

\* requestPermissionsAsync resolved: new Audio.Recording() and
\* prepareToRecordAsync, or the throw when permission is not granted
startRecording_permissions(k, granted) ==
  /\ tasks[k].fn = "startRecording" /\ tasks[k].pc = "requestPermissionsAsync"
  /\ IF granted
     THEN /\ recordings' = [recordings EXCEPT ![NewHandle].status = "created"]
          /\ tasks' = [tasks EXCEPT ![k].pc = "prepareToRecordAsync",
                                    ![k].h = NewHandle]
          /\ UNCHANGED <<phase, errorMessage, fired, screenPhase>>
     ELSE /\ Caught(NoHandle, PermissionError)
          /\ tasks' = [tasks EXCEPT ![k] = NoTask]
          /\ UNCHANGED recordings
  /\ UNCHANGED <<duration, recordingRef, durationIntervalRef, intervals, timeouts,
                 alertOpen, pressed>>
  /\ UNCHANGED <<storeVars, pickerVars, titleVars>>

\* prepareToRecordAsync settled: startAsync is called, or the catch block
startRecording_prepared(k, ok) ==
  /\ tasks[k].fn = "startRecording" /\ tasks[k].pc = "prepareToRecordAsync"
  /\ IF ok
     THEN /\ recordings' = [recordings EXCEPT ![tasks[k].h].status = "prepared"]
          /\ tasks' = [tasks EXCEPT ![k].pc = "startAsync"]
          /\ UNCHANGED <<phase, errorMessage, fired, screenPhase>>
     ELSE /\ Caught(tasks[k].h, PlatformError)
          /\ tasks' = [tasks EXCEPT ![k] = NoTask]
          /\ UNCHANGED recordings
  /\ UNCHANGED <<duration, recordingRef, durationIntervalRef, intervals, timeouts,
                 alertOpen, pressed>>
  /\ UNCHANGED <<storeVars, pickerVars, titleVars>>

\* startAsync settled: the recording is running and the duration interval is
\* created, or the catch block
startRecording_started(k, ok) ==
  /\ tasks[k].fn = "startRecording" /\ tasks[k].pc = "startAsync"
  /\ LET h == tasks[k].h
     IN IF ok
        THEN /\ recordings' = [recordings EXCEPT ![h].status = "recording"]
             /\ recordingRef' = h
             /\ phase' = "recording"
             /\ duration' = 0
             /\ intervals' = [intervals EXCEPT ![h] =
                                [running |-> TRUE, d |-> tasks[k].d]]
             /\ durationIntervalRef' = h
             /\ UNCHANGED <<errorMessage, fired, screenPhase>>
        ELSE /\ Caught(h, PlatformError)
             /\ UNCHANGED <<recordings, recordingRef, duration, intervals,
                            durationIntervalRef>>
  /\ tasks' = [tasks EXCEPT ![k] = NoTask]
  /\ UNCHANGED <<timeouts, alertOpen, pressed>>
  /\ UNCHANGED <<storeVars, pickerVars, titleVars>>

\* faulty variant: a duration out of bounds returns without unloading
stopRecording_sync_keepingHandle(d) ==
  /\ intervals' = clearInterval(durationIntervalRef)
  /\ durationIntervalRef' = NoHandle
  /\ IF recordingRef = NoHandle
     THEN UNCHANGED <<phase, errorMessage, recordings, tasks>>
     ELSE /\ FreeTasks # {}
          /\ IF validateRecordingDuration(d).isValid
             THEN /\ recordings' = [recordings EXCEPT ![recordingRef].releases = @ + 1]
                  /\ tasks' = [tasks EXCEPT ![NextTask] =
                       [fn |-> "stopRecording", pc |-> "stopAndUnloadAsync",
                        h |-> recordingRef, d |-> d]]
                  /\ UNCHANGED <<phase, errorMessage>>
             ELSE /\ errorMessage' = validateRecordingDuration(d).error
                  /\ phase' = "error"
                  /\ UNCHANGED recordings
                  /\ tasks' = [tasks EXCEPT ![NextTask] =
                       [fn |-> "stopRecording", pc |-> "stopAndUnloadAsync (invalid)",
                        h |-> recordingRef, d |-> d]]

\* stopRecording up to its first await, reading d as its duration: the
\* interval is cleared; without a recording it returns; a duration out of
\* bounds sets the error card before stopAndUnloadAsync is called
stopRecording_sync(d) ==
  /\ intervals' = clearInterval(durationIntervalRef)
  /\ durationIntervalRef' = NoHandle
  /\ IF recordingRef = NoHandle
     THEN UNCHANGED <<phase, errorMessage, recordings, tasks>>
     ELSE /\ FreeTasks # {}
          /\ recordings' = [recordings EXCEPT ![recordingRef].releases = @ + 1]
          /\ IF validateRecordingDuration(d).isValid
             THEN /\ tasks' = [tasks EXCEPT ![NextTask] =
                       [fn |-> "stopRecording", pc |-> "stopAndUnloadAsync",
                        h |-> recordingRef, d |-> d]]
                  /\ UNCHANGED <<phase, errorMessage>>
             ELSE /\ errorMessage' = validateRecordingDuration(d).error
                  /\ phase' = "error"
                  /\ tasks' = [tasks EXCEPT ![NextTask] =
                       [fn |-> "stopRecording", pc |-> "stopAndUnloadAsync (invalid)",
                        h |-> recordingRef, d |-> d]]

\* handlePress in phase recording: stopRecording of the latest render
handlePress_stop ==
  /\ phase = "recording"
  /\ pressed < MaxPresses
  /\ stopRecording_sync(duration)
  /\ pressed' = pressed + 1
  /\ UNCHANGED <<duration, recordingRef, timeouts, fired, screenPhase, alertOpen>>
  /\ UNCHANGED <<storeVars, pickerVars, titleVars>>

\* the duration interval t fires once; at MAX_DURATION_MS it calls the
\* stopRecording of the render in which its startRecording was called
tick(t) ==
  /\ intervals[t].running
  /\ duration < ShortTicks * TickMs \/ duration >= SkipTicks * TickMs
  /\ duration < MAX_DURATION_MS + OverrunTicks * TickMs
  /\ duration' = duration + TickMs
  /\ IF duration + TickMs >= MAX_DURATION_MS
     THEN stopRecording_sync(intervals[t].d)
     ELSE UNCHANGED <<phase, errorMessage, recordings, tasks, intervals,
                      durationIntervalRef>>
  /\ UNCHANGED <<recordingRef, timeouts, fired, screenPhase, alertOpen, pressed>>
  /\ UNCHANGED <<storeVars, pickerVars, titleVars>>

\* the duration interval t fires SkipTicks times in a row, below the maximum
tickRun(t) ==
  /\ intervals[t].running
  /\ duration + SkipTicks * TickMs < MAX_DURATION_MS
  /\ duration' = duration + SkipTicks * TickMs
  /\ UNCHANGED <<phase, errorMessage, recordingRef, durationIntervalRef,
                 recordings, intervals, tasks, timeouts, fired, screenPhase,
                 alertOpen, pressed>>
  /\ UNCHANGED <<storeVars, pickerVars, titleVars>>

\* stopAndUnloadAsync of a stopRecording settled
stopRecording_unloaded(k, ok) ==
  /\ tasks[k].fn = "stopRecording"
  /\ LET h == tasks[k].h
     IN IF ~ok
        THEN /\ Caught(h, PlatformError)
             /\ UNCHANGED <<recordings, recordingRef, timeouts>>
        ELSE /\ recordings' = [recordings EXCEPT ![h].status = "unloaded"]
             /\ IF tasks[k].pc = "stopAndUnloadAsync (invalid)"
                THEN /\ recordingRef' = NoHandle
                     /\ UNCHANGED <<phase, errorMessage, fired, screenPhase,
                                    timeouts>>
                ELSE IF recordingRef = NoHandle
                THEN \* recordingRef.current.getURI() on null
                     /\ Caught(h, TypeError)
                     /\ UNCHANGED <<recordingRef, timeouts>>
                ELSE /\ timeouts' = timeouts \cup
                          {[uri |-> recordingRef, durationMs |-> tasks[k].d]}
                     /\ recordingRef' = NoHandle
                     /\ phase' = "processing"
                     /\ fired' = fired \cup {[cb |-> "onProcessingStart", h |-> h]}
                     /\ screenPhase' = "processing"
                     /\ UNCHANGED errorMessage
  /\ tasks' = [tasks EXCEPT ![k] = NoTask]
  /\ UNCHANGED <<duration, durationIntervalRef, intervals, alertOpen, pressed>>
  /\ UNCHANGED <<storeVars, pickerVars, titleVars>>

\* the Cancel button: cancelRecording up to its await, or to its end when
\* there is no recording
cancelRecording_call ==
  /\ phase = "recording"
  /\ pressed < MaxPresses
  /\ intervals' = clearInterval(durationIntervalRef)
  /\ IF recordingRef # NoHandle
     THEN /\ FreeTasks # {}
          /\ recordings' = [recordings EXCEPT ![recordingRef].releases = @ + 1]
          /\ tasks' = [tasks EXCEPT ![NextTask] =
               [fn |-> "cancelRecording", pc |-> "stopAndUnloadAsync",
                h |-> recordingRef, d |-> duration]]
          /\ UNCHANGED <<phase, duration, errorMessage>>
     ELSE /\ phase' = "idle"
          /\ duration' = 0
          /\ errorMessage' = NULL
          /\ UNCHANGED <<recordings, tasks>>
  /\ pressed' = pressed + 1
  /\ UNCHANGED <<recordingRef, durationIntervalRef, timeouts, fired, screenPhase,
                 alertOpen>>
  /\ UNCHANGED <<storeVars, pickerVars, titleVars>>

\* stopAndUnloadAsync of a cancelRecording settled (a rejection is swallowed)
cancelRecording_unloaded(k, ok) ==
  /\ tasks[k].fn = "cancelRecording"
  /\ recordings' = IF ok THEN [recordings EXCEPT ![tasks[k].h].status = "unloaded"]
                   ELSE recordings
  /\ recordingRef' = NoHandle
  /\ phase' = "idle"
  /\ duration' = 0
  /\ errorMessage' = NULL
  /\ tasks' = [tasks EXCEPT ![k] = NoTask]
  /\ UNCHANGED <<durationIntervalRef, intervals, timeouts, fired, screenPhase,
                 alertOpen, pressed>>
  /\ UNCHANGED <<storeVars, pickerVars, titleVars>>

\* the setTimeout callback of stopRecording: setPhase(DONE), then
\* onRecordingComplete, which is RecordScreen's handleRecordingComplete up
\* to its await of processVoiceRecording
setTimeout_fired(to, c, tone) ==
  /\ to \in timeouts
  /\ timeouts' = timeouts \ {to}
  /\ phase' = "done"
  /\ fired' = fired \cup {[cb |-> "onRecordingComplete", h |-> to.uri]}
  /\ screenPhase' = "processing"
  /\ processVoiceRecording_begin(c, tone)
  /\ UNCHANGED <<duration, errorMessage, recordingRef, durationIntervalRef,
                 recordings, intervals, tasks, alertOpen, pressed>>
  /\ UNCHANGED <<pickerVars, titleVars>>

\* handleRecordingComplete after processVoiceRecording returned success
handleRecordingComplete_success(c) ==
  /\ processVoiceRecording_resolved(c)
  /\ screenPhase' = "done"
  /\ UNCHANGED <<phase, duration, errorMessage, recordingRef, durationIntervalRef,
                 recordings, intervals, tasks, timeouts, fired, alertOpen, pressed>>
  /\ UNCHANGED <<pickerVars, titleVars>>

\* handleRecordingComplete after processVoiceRecording returned a failure:
\* the "Processing Failed" alert
handleRecordingComplete_failure(c) ==
  /\ processVoiceRecording_rejected(c)
  /\ alertOpen' = TRUE
  /\ UNCHANGED <<phase, duration, errorMessage, recordingRef, durationIntervalRef,
                 recordings, intervals, tasks, timeouts, fired, screenPhase, pressed>>
  /\ UNCHANGED <<pickerVars, titleVars>>

\* OK on the "Processing Failed" alert
alert_ok ==
  /\ alertOpen
  /\ alertOpen' = FALSE
  /\ screenPhase' = "idle"
  /\ UNCHANGED <<phase, duration, errorMessage, recordingRef, durationIntervalRef,
                 recordings, intervals, tasks, timeouts, fired, pressed>>
  /\ UNCHANGED <<storeVars, pickerVars, titleVars>>

\* "Record Again" on RecordScreen
recordAgain ==
  /\ screenPhase = "done"
  /\ screenPhase' = "idle"
  /\ UNCHANGED <<phase, duration, errorMessage, recordingRef, durationIntervalRef,
                 recordings, intervals, tasks, timeouts, fired, alertOpen, pressed>>
  /\ UNCHANGED <<storeVars, pickerVars, titleVars>>

\* handlePress in phase done (setPhase(IDLE), setDuration(0)) is no action of
\* the model: renderProcessing and renderDone bind no handler, so nothing
\* calls handlePress in those phases.

\* a recording session: the recorder, the pipeline its completion starts,
\* and the backend
InitCapture ==
  /\ state = initialState
  /\ server = InitialServer(0)
  /\ nextId = 1
  /\ cache = NoItem
  /\ calls = [c \in Slots |-> Idle]
  /\ lastReturn = [op |-> "none"]
  /\ started = 0
  /\ InitRecorder
  /\ InitPicker
  /\ InitTitle

NextCapture ==
  \/ handlePress_start
  \/ \E k \in TaskSlots, granted \in BOOLEAN : startRecording_permissions(k, granted)
  \/ \E k \in TaskSlots, ok \in BOOLEAN : startRecording_prepared(k, ok)
  \/ \E k \in TaskSlots, ok \in BOOLEAN : startRecording_started(k, ok)
  \/ handlePress_stop
  \/ \E t \in HandleIds : tick(t)
  \/ \E t \in HandleIds : tickRun(t)
  \/ \E k \in TaskSlots, ok \in BOOLEAN : stopRecording_unloaded(k, ok)
  \/ cancelRecording_call
  \/ \E k \in TaskSlots, ok \in BOOLEAN : cancelRecording_unloaded(k, ok)
  \/ \E to \in timeouts, c \in Slots, tone \in RecordTones : setTimeout_fired(to, c, tone)
  \/ \E c \in Slots : BackendRespond(c)
  \/ \E c \in Slots : BackendFail(c)
  \/ \E c \in Slots : processVoiceRecording_create(c)
  \/ \E c \in Slots : handleRecordingComplete_success(c)
  \/ \E c \in Slots : handleRecordingComplete_failure(c)
  \/ alert_ok
  \/ recordAgain

SpecCapture == InitCapture /\ [][NextCapture]_vars


\* ------------------------------------------------------------------------
\* models/Draft.js: titles generated from a text, and again from a title
\* ------------------------------------------------------------------------
InitGenerate ==
  /\ content \in Strings(MaxText)
  /\ maxLength \in 0..MaxTitleLength
  /\ titles = <<>>
  /\ InitPicker
  /\ InitRecorder
  /\ state = initialState
  /\ server = InitialServer(0)
  /\ nextId = 1
  /\ cache = NoItem
  /\ calls = [c \in Slots |-> Idle]
  /\ lastReturn = [op |-> "none"]
  /\ started = 0

\* generateTitleFromContent(x, maxLength), x the text or the last title
generateTitle ==
  /\ Len(titles) < MaxTitles
  /\ titles' = Append(titles,
       generateTitleFromContent(IF titles = <<>> THEN content ELSE titles[Len(titles)],
                                maxLength))
  /\ UNCHANGED <<content, maxLength>>
  /\ UNCHANGED <<storeVars, uiVars, pickerVars>>

SpecGenerate == InitGenerate /\ [][generateTitle]_vars


\* ------------------------------------------------------------------------
\* components/MediaPicker.js under the editor screen, which keeps the list
\* handed to onMediaChange as its mediaAttachments and passes it back as the
\* attachments prop.  A pickImage, pickVideo or uploadAttachments in flight
\* works on the list of the render it was called in.
\*
\* An attachment carries its type.  Its uri, mimeType, fileName, assetUrn and
\* uploaded flag are carried along: the only read, the `uploaded` test of
\* uploadAttachments, is on attachments the pick has just created, whose
\* flag is false.
\* ------------------------------------------------------------------------
MAX_IMAGES == 9

Attachment(type) == [type |-> type]

canAddImage(atts) ==
  /\ \A i \in 1..Len(atts) : atts[i].type # "video"
  /\ Len(atts) < MAX_IMAGES
canAddVideo(atts) == Len(atts) = 0

\* faulty variant: the limit does not count the images already attached
selectionLimit_whole(atts) == MAX_IMAGES

\* selectionLimit handed to launchImageLibraryAsync
selectionLimit(atts) == MAX_IMAGES - Len(atts)

\* A slot holds one pick and the uploads that follow it; the slot of a pick
\* that has returned is not used again.

\* uploadAttachments from index i of all up to its next await, in slot k
uploadAttachments(k, all, i) ==
  IF i > Len(all)
  THEN /\ uploaders' = [uploaders EXCEPT ![k] = NoTask]
       /\ uploadingIndex' = NULL
  ELSE /\ uploaders' = [uploaders EXCEPT ![k] =
            [fn |-> "uploadAttachments", all |-> all, i |-> i]]
       /\ uploadingIndex' = i

\* "Add Photo" of showOptions: pickImage up to requestPermission
showOptions_pickImage(k) ==
  /\ canAddImage(attachments)
  /\ pickers[k] = NoTask
  /\ pickers' = [pickers EXCEPT ![k] =
       [fn |-> "pickImage", pc |-> "requestPermission", attachments |-> attachments]]
  /\ UNCHANGED <<attachments, uploadingIndex, uploaders>>
  /\ UNCHANGED <<storeVars, uiVars, titleVars>>

\* "Add Video" of showOptions: pickVideo up to requestPermission
showOptions_pickVideo(k) ==
  /\ canAddVideo(attachments)
  /\ pickers[k] = NoTask
  /\ pickers' = [pickers EXCEPT ![k] =
       [fn |-> "pickVideo", pc |-> "requestPermission", attachments |-> attachments]]
  /\ UNCHANGED <<attachments, uploadingIndex, uploaders>>
  /\ UNCHANGED <<storeVars, uiVars, titleVars>>

\* requestPermission settled: the library is opened, or the pick returns
requestPermission(k, granted) ==
  /\ pickers[k].fn \in {"pickImage", "pickVideo"}
  /\ pickers[k].pc = "requestPermission"
  /\ pickers' = [pickers EXCEPT ![k] =
       IF granted THEN [@ EXCEPT !.pc = "launchImageLibraryAsync"] ELSE [fn |-> "returned"]]
  /\ UNCHANGED <<attachments, uploadingIndex, uploaders>>
  /\ UNCHANGED <<storeVars, uiVars, titleVars>>

\* the library closed with n images chosen (0: canceled): the new list is
\* handed to onMediaChange and the upload of the new images begins
pickImage_result(k, n) ==
  /\ pickers[k].fn = "pickImage" /\ pickers[k].pc = "launchImageLibraryAsync"
  /\ n \in 0..selectionLimit(pickers[k].attachments)
  /\ pickers' = [pickers EXCEPT ![k] = [fn |-> "returned"]]
  /\ IF n = 0
     THEN UNCHANGED <<attachments, uploadingIndex, uploaders>>
     ELSE LET updated == pickers[k].attachments \o
                           [i \in 1..n |-> Attachment("image")]
          IN /\ attachments' = updated
             /\ uploadAttachments(k, updated, Len(pickers[k].attachments) + 1)
  /\ UNCHANGED <<storeVars, uiVars, titleVars>>

\* the library closed with a video chosen, or canceled
pickVideo_result(k, chosen) ==
  /\ pickers[k].fn = "pickVideo" /\ pickers[k].pc = "launchImageLibraryAsync"
  /\ pickers' = [pickers EXCEPT ![k] = [fn |-> "returned"]]
  /\ IF ~chosen
     THEN UNCHANGED <<attachments, uploadingIndex, uploaders>>
     ELSE LET updated == <<Attachment("video")>>
          IN /\ attachments' = updated
             /\ uploadAttachments(k, updated, 1)
  /\ UNCHANGED <<storeVars, uiVars, titleVars>>

\* onUploadMedia settled for the attachment at index i of the uploader's
\* list: on success the list with that attachment marked as uploaded is
\* handed to onMediaChange; the loop goes on to the next attachment
onUploadMedia_settled(k, ok) ==
  /\ uploaders[k] # NoTask
  /\ attachments' = IF ok THEN uploaders[k].all ELSE attachments
  /\ uploadAttachments(k, uploaders[k].all, uploaders[k].i + 1)
  /\ UNCHANGED pickers
  /\ UNCHANGED <<storeVars, uiVars, titleVars>>

\* the remove button of the thumbnail at index
removeAttachment(index) ==
  /\ index \in 1..Len(attachments)
  /\ attachments' = [j \in 1..(Len(attachments) - 1) |->
                       IF j < index THEN attachments[j] ELSE attachments[j + 1]]
  /\ UNCHANGED <<uploadingIndex, pickers, uploaders>>
  /\ UNCHANGED <<storeVars, uiVars, titleVars>>

\* the editor opens on a new draft, or on a draft with an image or a video
InitAttach ==
  /\ attachments \in {<<>>, <<Attachment("image")>>, <<Attachment("video")>>}
  /\ uploadingIndex = NULL
  /\ pickers = [k \in PickSlots |-> NoTask]
  /\ uploaders = [k \in PickSlots |-> NoTask]
  /\ InitTitle
  /\ InitRecorder
  /\ state = initialState
  /\ server = InitialServer(0)
  /\ nextId = 1
  /\ cache = NoItem
  /\ calls = [c \in Slots |-> Idle]
  /\ lastReturn = [op |-> "none"]
  /\ started = 0

NextAttach ==
  \/ \E k \in PickSlots : showOptions_pickImage(k)
  \/ \E k \in PickSlots : showOptions_pickVideo(k)
  \/ \E k \in PickSlots, granted \in BOOLEAN : requestPermission(k, granted)
  \/ \E k \in PickSlots, n \in 0..MAX_IMAGES : pickImage_result(k, n)
  \/ \E k \in PickSlots, chosen \in BOOLEAN : pickVideo_result(k, chosen)
  \/ \E k \in PickSlots, ok \in BOOLEAN : onUploadMedia_settled(k, ok)
  \/ \E index \in 1..MAX_IMAGES : removeAttachment(index)

SpecAttach == InitAttach /\ [][NextAttach]_vars

\* ------------------------------------------------------------------------
\* Steps of an operation, as seen in one transition
\* ------------------------------------------------------------------------
\* call c of one of the operations ops moves
StepOf(c, ops) ==
  /\ calls'[c] # calls[c]
  /\ calls[c].op \in ops \/ calls'[c].op \in ops

\* call c of operation op returns
Completed(c, op) == calls[c].op = op /\ calls'[c] = Idle

Succeeded(c, op) == Completed(c, op) /\ lastReturn' = Return(op, TRUE, NULL)

Failed(c, op) ==
  /\ Completed(c, op)
  /\ lastReturn'.op = op /\ lastReturn'.shape = "result"
  /\ lastReturn'.success = FALSE

IdsOf(drafts) == {drafts[i].id : i \in 1..Len(drafts)}

\* ------------------------------------------------------------------------
\* Claims
\* ------------------------------------------------------------------------
\* the step in which fetchDrafts, after a failed list call, dispatches the
\* cached list
FallbackPopulates(c) ==
  /\ Completed(c, "fetchDrafts")
  /\ calls[c].pc = "getCachedDrafts"
  /\ cache # NoItem
  /\ Len(cache) >= 1
  /\ state.drafts # JSONparse(cache)
  /\ state'.drafts = JSONparse(cache)

\* C1: when the list call fails and the cache holds N >= 1 drafts,
\* fetchDrafts ends with drafts the N cached drafts, isLoading false and
\* error still set.
C1_CacheFallbackKeepsError ==
  [][\A c \in Slots :
        FallbackPopulates(c) =>
          /\ Len(state'.drafts) = Len(cache)
          /\ state'.isLoading = FALSE
          /\ state'.error # NULL]_vars

\* the step in which fetchDrafts dispatches the list the gateway returned
FetchSucceeds(c) ==
  /\ Completed(c, "fetchDrafts")
  /\ calls[c].pc = "cacheDrafts"

\* C2: after a fetchDrafts whose list call succeeded, drafts is exactly the
\* list the gateway returned, the cache holds the serialisation of that list
\* unless the write failed (then it keeps its value), and the fetch is not a
\* failure: no error, not loading, the list is returned.
C2_FetchReplacesList ==
  [][\A c \in Slots :
        FetchSucceeds(c) =>
          /\ state'.drafts = calls[c].drafts
          /\ cache' = JSONstringify(calls[c].drafts) \/ cache' = cache
          /\ cache' # NoItem =>
                \A i \in 1..Len(cache') : cache'[i].scheduledAt.type # "Date"
          /\ state'.error = NULL
          /\ state'.isLoading = FALSE
          /\ lastReturn' = ReturnArray("fetchDrafts", calls[c].drafts)]_vars

\* a fetch has replaced a list that held a draft created in this session by
\* the backend's list, and the cache holds its serialisation
C2_Witness ==
  /\ lastReturn.op = "fetchDrafts"
  /\ lastReturn.length = 2
  /\ Len(state.drafts) = 2
  /\ state.recentDraft # NullDraft
  /\ state.stats.totalDrafts = 1
  /\ cache = JSONstringify(state.drafts)
  /\ state.error = NULL

\* C3: the step in which processVoiceRecording succeeds makes the new draft
\* currentDraft, recentDraft and drafts[0], keeps the previous drafts behind
\* it in their order, adds exactly one to stats.totalDrafts and clears
\* isProcessing; the new draft carries the pipeline's transcript and text.
C3_ProcessVoiceSuccess ==
  [][\A c \in Slots :
        Succeeded(c, "processVoiceRecording") =>
          /\ Len(state'.drafts) = Len(state.drafts) + 1
          /\ Tail(state'.drafts) = state.drafts
          /\ state'.currentDraft = state'.drafts[1]
          /\ state'.recentDraft = state'.drafts[1]
          /\ state'.drafts[1].rawTranscript = Transcript
          /\ state'.drafts[1].aiRefinedText = RefinedText(calls[c].tone)
          /\ state'.drafts[1].status = "draft"
          /\ state'.stats.totalDrafts = state.stats.totalDrafts + 1
          /\ state'.stats.scheduledPosts = state.stats.scheduledPosts
          /\ state'.isProcessing = FALSE]_vars

\* a recording was turned into a draft in front of a draft listed before
C3_Witness ==
  /\ lastReturn = Return("processVoiceRecording", TRUE, NULL)
  /\ Len(state.drafts) = 2
  /\ state.drafts[1].id # state.drafts[2].id
  /\ state.currentDraft = state.drafts[1]
  /\ state.recentDraft = state.drafts[1]
  /\ state.stats.totalDrafts = 1
  /\ state.isProcessing = FALSE

\* C4: no step of a processVoiceRecording call other than its success
\* changes drafts, currentDraft, recentDraft or stats, and the step in which
\* it fails (at either awaited call) clears isProcessing, sets error and
\* returns success = false with the message.
C4_ProcessVoiceFailure ==
  [][\A c \in Slots :
        /\ (StepOf(c, {"processVoiceRecording"})
            /\ ~Succeeded(c, "processVoiceRecording")) =>
              /\ state'.drafts = state.drafts
              /\ state'.currentDraft = state.currentDraft
              /\ state'.recentDraft = state.recentDraft
              /\ state'.stats = state.stats
        /\ (Completed(c, "processVoiceRecording")
            /\ calls[c].resp.status = "rejected") =>
              /\ calls[c].pc \in {"processVoicePost", "createDraft"}
              /\ state'.isProcessing = FALSE
              /\ state'.error = calls[c].resp.message
              /\ state'.error # NULL
              /\ lastReturn' = Return("processVoiceRecording", FALSE, state'.error)]_vars

\* a processVoiceRecording has failed while a draft is listed and open
C4_Witness ==
  /\ lastReturn.op = "processVoiceRecording"
  /\ lastReturn.success = FALSE
  /\ state.error = lastReturn.error
  /\ state.isProcessing = FALSE
  /\ Len(state.drafts) >= 1
  /\ state.currentDraft # NullDraft
  /\ \A c \in Slots : calls[c] = Idle

\* C5: whenever currentDraft is non-null, every listed draft with its id is
\* identical to it.
C5_CurrentDraftConsistent ==
  state.currentDraft # NullDraft =>
    \A i \in 1..Len(state.drafts) :
       state.drafts[i].id = state.currentDraft.id => state.drafts[i] = state.currentDraft

\* the operations that end in UPDATE_DRAFT_SUCCESS
UpdateOps == {"updateDraftText", "saveDraft", "updateDraftTone", "scheduleDraft"}

\* C6: the step in which saveDraft (or another update by id) succeeds
\* replaces, at once, every listed draft of that id and currentDraft when it
\* has that id by the draft the gateway returned, and leaves the listed
\* drafts of other ids and a currentDraft of another id as they were.
C6_UpdateAtomic ==
  [][\A c \in Slots : \A op \in UpdateOps :
        Succeeded(c, op) =>
          LET draft == mapDraft(calls[c].resp.draft)
          IN /\ draft.id = calls[c].draftId
             /\ Len(state'.drafts) = Len(state.drafts)
             /\ \A i \in 1..Len(state.drafts) :
                  state'.drafts[i] = IF state.drafts[i].id = calls[c].draftId
                                     THEN draft ELSE state.drafts[i]
             /\ state'.currentDraft =
                  IF state.currentDraft # NullDraft
                     /\ state.currentDraft.id = calls[c].draftId
                  THEN draft ELSE state.currentDraft]_vars

\* a saveDraft has succeeded on the open draft, which is listed beside a
\* draft of another id, and both copies carry the saved text
C6_Witness ==
  /\ lastReturn = Return("saveDraft", TRUE, NULL)
  /\ Len(state.drafts) = 2
  /\ state.currentDraft # NullDraft
  /\ state.currentDraft.userEditedText \in EditTexts
  /\ \E i, j \in 1..2 :
       /\ state.drafts[i] = state.currentDraft
       /\ state.drafts[j].id # state.currentDraft.id
       /\ state.drafts[j].userEditedText \notin EditTexts

\* C7: every scheduleDraft that succeeds raises stats.scheduledPosts by one,
\* whatever the interleaving of the schedule requests and their responses.
C7_ScheduleIncrements ==
  [][\A c \in Slots :
        Succeeded(c, "scheduleDraft") =>
          state'.stats.scheduledPosts = state.stats.scheduledPosts + 1]_vars

\* C8: the step in which deleteDraft(id) succeeds removes every listed draft
\* of that id and nothing else, clears currentDraft exactly when it had that
\* id, and lowers stats.totalDrafts by one but not below zero; and deleting
\* the draft a processVoiceRecording has just created gives back the
\* totalDrafts of before the creation, with the draft gone from the list.
C8_DeleteDraft ==
  [][\A c \in Slots :
        /\ Succeeded(c, "deleteDraft") =>
             /\ calls[c].draftId \notin IdsOf(state'.drafts)
             /\ state'.drafts =
                  SelectSeq(state.drafts, LAMBDA d : d.id # calls[c].draftId)
             /\ state'.currentDraft =
                  IF state.currentDraft # NullDraft
                     /\ state.currentDraft.id = calls[c].draftId
                  THEN NullDraft ELSE state.currentDraft
             /\ state'.stats.totalDrafts =
                  IF state.stats.totalDrafts >= 1 THEN state.stats.totalDrafts - 1
                  ELSE 0
             /\ state'.stats.scheduledPosts = state.stats.scheduledPosts
             /\ state'.stats.publishedPosts = state.stats.publishedPosts
        /\ Succeeded(c, "processVoiceRecording") =>
             LET after == DELETE_DRAFT_SUCCESS(state', state'.currentDraft.id)
             IN /\ after.stats.totalDrafts = state.stats.totalDrafts
                /\ state'.currentDraft.id \notin IdsOf(after.drafts)
                /\ after.currentDraft = NullDraft]_vars

\* a deleteDraft has succeeded on the draft created in this session: it is
\* gone from the list and totalDrafts is back at its value of before
C8_Witness ==
  /\ lastReturn = Return("deleteDraft", TRUE, NULL)
  /\ state.recentDraft # NullDraft
  /\ state.recentDraft.id \notin IdsOf(state.drafts)
  /\ state.currentDraft = NullDraft
  /\ state.stats.totalDrafts = 0
  /\ Len(state.drafts) >= 1

\* the operations whose catch block dispatches nothing
QuietOps == {"updateDraftText", "saveDraft", "updateDraftTone", "scheduleDraft",
             "deleteDraft"}

\* C9: no step of saveDraft, updateDraftTone, scheduleDraft or deleteDraft
\* other than its success changes the store, and the step in which the
\* gateway's rejection is handled (for updateDraftTone at changeTone or at
\* updateDraft) returns success = false with the gateway's message.
C9_FailureLeavesState ==
  [][\A c \in Slots : \A op \in QuietOps :
        /\ (StepOf(c, {op}) /\ ~Succeeded(c, op)) => state' = state
        /\ (Completed(c, op) /\ calls[c].resp.status = "rejected") =>
             /\ lastReturn' = Return(op, FALSE, calls[c].resp.message)
             /\ lastReturn'.error \in {NetworkError, ApiError}]_vars

\* an updateDraftTone has failed with the open draft listed, and nothing is
\* in flight
C9_Witness ==
  /\ lastReturn.op = "updateDraftTone"
  /\ lastReturn.success = FALSE
  /\ lastReturn.error = ApiError
  /\ state.currentDraft # NullDraft
  /\ \E i \in 1..Len(state.drafts) : state.drafts[i] = state.currentDraft
  /\ \A c \in Slots : calls[c] = Idle

\* C10: the step in which updateDraftTone(id, newTone) succeeds leaves every
\* copy of the draft in the store (listed or open) with tone = newTone and
\* with aiRefinedText and userEditedText both equal to the text changeTone
\* returned.
C10_ToneOverwrites ==
  [][\A c \in Slots :
        Succeeded(c, "updateDraftTone") =>
          LET Toned(d) == /\ d.tone = calls[c].newTone
                          /\ d.aiRefinedText = calls[c].refinedText
                          /\ d.userEditedText = calls[c].refinedText
          IN /\ calls[c].refinedText = RefinedText(calls[c].newTone)
             /\ \A i \in 1..Len(state'.drafts) :
                  state'.drafts[i].id = calls[c].draftId => Toned(state'.drafts[i])
             /\ (state'.currentDraft # NullDraft
                 /\ state'.currentDraft.id = calls[c].draftId)
                => Toned(state'.currentDraft)]_vars

\* an updateDraftTone to Casual-Pro has succeeded on the open, listed draft
C10_Witness ==
  /\ lastReturn = Return("updateDraftTone", TRUE, NULL)
  /\ state.currentDraft # NullDraft
  /\ state.currentDraft.tone = "Casual-Pro"
  /\ state.currentDraft.aiRefinedText = RefinedText("Casual-Pro")
  /\ state.currentDraft.userEditedText = RefinedText("Casual-Pro")
  /\ \E i \in 1..Len(state.drafts) : state.drafts[i] = state.currentDraft


\* C11: the text updateDraftTone hands to changeTone is the display text of
\* the draft it located (getDisplayText: userEditedText if non-empty, else
\* aiRefinedText if non-empty, else rawTranscript), whatever text stages of
\* that draft are empty.
C11_ToneUsesDisplayText ==
  [][\A c \in Slots :
        (calls[c] = Idle /\ calls'[c] # Idle /\ calls'[c].op = "updateDraftTone") =>
          calls'[c].req.text =
            getDisplayText(locateDraft(state, calls'[c].draftId))]_vars


\* the asynchronous operations the store exposes to the screens
PublicOps == {"fetchDrafts", "processVoiceRecording", "updateDraftText",
              "updateDraftTone", "saveDraft", "scheduleDraft", "deleteDraft"}

\* C12: whatever a public asynchronous store operation returns is a result
\* object {success: boolean, error?: string}: success is a boolean, and a
\* failure carries its message.
C12_ResultShape ==
  lastReturn.op \in PublicOps =>
    /\ lastReturn.shape = "result"
    /\ lastReturn.success \in BOOLEAN
    /\ lastReturn.success = FALSE => lastReturn.error # NULL


\* the list shows draft id with the given status
ListShows(s, id, status) ==
  \E i \in 1..Len(s.drafts) : s.drafts[i].id = id /\ s.drafts[i].status = status

\* the open draft is draft id and has the given status
CurrentShows(s, id, status) ==
  CurrentHasId(s, id) /\ s.currentDraft.status = status

\* C13: no step takes a draft the list shows as published to a list that
\* shows it as draft, nor an open draft that is published to an open draft
\* of the same id that is draft.
C13_StatusNeverRegresses ==
  [][\A id \in DraftIds :
        /\ ListShows(state, id, "published") => ~ListShows(state', id, "draft")
        /\ CurrentShows(state, id, "published")
             => ~CurrentShows(state', id, "draft")]_vars


\* callbacks of the recorder's owner called for the session of handle h
Called(f, h) == {e \in f : e.h = h}

\* C14: when a cancelRecording of a session completes, the phase is idle, the
\* duration is 0, stopAndUnloadAsync has been invoked exactly once on the
\* session's recording, and neither onRecordingComplete nor onError has been
\* called for the session, also when a stopRecording of the same session
\* was already under way.
C14_CancelReleasesOnce ==
  [][\A k \in TaskSlots :
        (tasks[k].fn = "cancelRecording" /\ tasks'[k] = NoTask) =>
          /\ phase' = "idle"
          /\ duration' = 0
          /\ recordings'[tasks[k].h].releases = 1
          /\ \A e \in Called(fired', tasks[k].h) :
               e.cb \notin {"onRecordingComplete", "onError"}]_vars


\* invocations of stopAndUnloadAsync on the recording of handle h
Releases(r, h) == IF h = NoHandle THEN 0 ELSE r[h].releases

\* C15: a stopRecording called while recording with an elapsed duration below
\* MIN_DURATION_MS sets the phase to error and invokes stopAndUnloadAsync on
\* the recording exactly once; when it completes it has not set the phase to
\* processing or done, has not scheduled or called onRecordingComplete, and
\* has not invoked stopAndUnloadAsync again.
C15_TooShortStop ==
  [][\A k \in TaskSlots :
        /\ ( /\ tasks[k] = NoTask
             /\ tasks'[k].fn = "stopRecording"
             /\ tasks'[k].d < MIN_DURATION_MS ) =>
               /\ phase' = "error"
               /\ errorMessage' = validateRecordingDuration(tasks'[k].d).error
               /\ Releases(recordings', tasks'[k].h) = Releases(recordings, tasks'[k].h) + 1
               /\ timeouts' = timeouts /\ fired' = fired
        /\ ( /\ tasks[k].fn = "stopRecording"
             /\ tasks[k].d < MIN_DURATION_MS
             /\ tasks'[k] = NoTask ) =>
               /\ phase' \in {phase, "error"}
               /\ timeouts' = timeouts
               /\ \A e \in fired' \ fired : e.cb = "onError"
               /\ Releases(recordings', tasks[k].h) = Releases(recordings, tasks[k].h)]_vars

\* a stop pressed after one or two seconds has completed: the recording is
\* unloaded after one stopAndUnloadAsync and the error card is shown
C15_Witness ==
  /\ phase = "error"
  /\ errorMessage = validateRecordingDuration(duration).error
  /\ duration > 0 /\ duration < MIN_DURATION_MS
  /\ \A k \in TaskSlots : tasks[k] = NoTask
  /\ \E h \in HandleIds : recordings[h] = [status |-> "unloaded", releases |-> 1]
  /\ \A e \in fired : e.cb # "onRecordingComplete"


\* C16: when the duration counter of a recording session reaches
\* MAX_DURATION_MS, the recorder starts the stop that leads to processing:
\* stopAndUnloadAsync is called for an accepted duration and the phase does
\* not become error.
C16_AutoStop ==
  [][(phase = "recording" /\ recordingRef # NoHandle
      /\ duration < MAX_DURATION_MS /\ duration' >= MAX_DURATION_MS) =>
        /\ phase' # "error"
        /\ \E k \in TaskSlots :
             /\ tasks'[k].fn = "stopRecording"
             /\ tasks'[k].pc = "stopAndUnloadAsync"
             /\ tasks'[k].h = recordingRef]_vars


\* C17: the recorder enters done only when processVoiceRecording has returned
\* success for the recording, and is in error once processVoiceRecording has
\* returned a failure for it.
C17_PipelineDecidesPhase ==
  [][/\ (phase # "done" /\ phase' = "done") =>
          /\ lastReturn'.op = "processVoiceRecording"
          /\ lastReturn'.success = TRUE
     /\ ( /\ lastReturn' # lastReturn
          /\ lastReturn'.op = "processVoiceRecording"
          /\ lastReturn'.success = FALSE ) => phase' = "error"]_vars


\* the step sets the phase to error for the session of handle h: a catch
\* block reports the error, or a stopRecording rejects the duration
EntersErrorFor(h) ==
  /\ phase' = "error"
  /\ \/ [cb |-> "onError", h |-> h] \in fired' \ fired
     \/ \E k \in TaskSlots :
          /\ tasks[k] = NoTask
          /\ tasks'[k].fn = "stopRecording"
          /\ tasks'[k].pc = "stopAndUnloadAsync (invalid)"
          /\ tasks'[k].h = h

\* C18: when the recorder enters error for a session, stopAndUnloadAsync has
\* been invoked on the session's recording if that recording was prepared
\* or started.
C18_NoHandleLeak ==
  [][\A h \in HandleIds :
        (EntersErrorFor(h) /\ recordings'[h].status \in {"prepared", "recording"}) =>
          recordings'[h].releases >= 1]_vars


PhaseEdges ==
  { <<"idle", "recording">>, <<"idle", "error">>,
    <<"recording", "processing">>, <<"recording", "idle">>, <<"recording", "error">>,
    <<"processing", "done">>, <<"processing", "error">>,
    <<"done", "idle">>,
    <<"error", "recording">> }

\* C19: the phase changes only along idle->recording, idle->error,
\* recording->processing, recording->idle, recording->error,
\* processing->done, processing->error, done->idle and error->recording
\* (error->error leaves it unchanged).
C19_PhaseEdges ==
  [][phase' # phase => <<phase, phase'>> \in PhaseEdges]_vars


\* recordings that were started and not unloaded
Held == {h \in HandleIds : recordings[h].status = "recording"}
\* duration intervals that were created and not cleared
Running == {t \in HandleIds : intervals[t].running}

\* C20: at any time at most one recording is started and not unloaded, and
\* at most one duration interval is running.
C20_ExclusiveHandle ==
  /\ Cardinality(Held) <= 1
  /\ Cardinality(Running) <= 1


\* the drafts a store state holds
HeldDrafts(s) ==
  {s.drafts[i] : i \in 1..Len(s.drafts)}
    \cup ({s.currentDraft, s.recentDraft} \ {NullDraft})

\* C21: for every draft the store holds, getDisplayText is userEditedText when
\* that is not empty, else aiRefinedText when that is not empty, else
\* rawTranscript; it is a string, never undefined or null, and the empty
\* string when the three stages are empty.
C21_DisplayText ==
  \A d \in HeldDrafts(state) :
    /\ getDisplayText(d) =
         IF d.userEditedText # "" THEN d.userEditedText
         ELSE IF d.aiRefinedText # "" THEN d.aiRefinedText
         ELSE d.rawTranscript
    /\ getDisplayText(d) \notin {Undefined, NULL}
    /\ (d.userEditedText = "" /\ d.aiRefinedText = "" /\ d.rawTranscript = "") =>
         getDisplayText(d) = ""

\* the store lists a draft read back from the cache whose wire object had
\* none of the three text fields
C21_Witness ==
  /\ server[1] # NullDraft
  /\ server[1].userEditedText = Undefined
  /\ server[1].aiRefinedText = Undefined
  /\ server[1].rawTranscript = Undefined
  /\ lastReturn.op = "fetchDrafts"
  /\ cache # NoItem
  /\ state.error # NULL
  /\ Len(state.drafts) = 1
  /\ getDisplayText(state.drafts[1]) = ""


\* the string ends with the suffix
EndsWith(t, suffix) ==
  /\ Len(t) >= Len(suffix)
  /\ SubSeq(t, Len(t) - Len(suffix) + 1, Len(t)) = suffix

\* C22: for a text shorter than maxLength the title generated from the title
\* is the title; and the title of a text that is longer than maxLength after
\* newlines are replaced and the ends trimmed ends with "..." and has at most
\* maxLength + 3 characters.
C22_TitleGeneration ==
  /\ (Len(content) < maxLength /\ Len(titles) >= 2) => titles[2] = titles[1]
  /\ (Len(trim(replaceNewlines(content))) > maxLength /\ Len(titles) >= 1) =>
       /\ EndsWith(titles[1], Ellipsis)
       /\ Len(titles[1]) <= maxLength + 3

\* a title was generated twice from a text shorter than maxLength that has
\* a newline between two words
C22_Witness ==
  /\ Len(content) < maxLength
  /\ Len(titles) = 2
  /\ titles[1] # content
  /\ \E i \in 1..Len(titles[1]) : titles[1][i] = " " /\ content[i] = "\n"

\* the entries of drafts with the given status, in the order of drafts
RECURSIVE WithStatus(_, _)
WithStatus(drafts, status) ==
  IF drafts = <<>> THEN <<>>
  ELSE (IF Head(drafts).status = status THEN <<Head(drafts)>> ELSE <<>>)
         \o WithStatus(Tail(drafts), status)

\* C23: in every state filteredDrafts is drafts when the filter is "all", and
\* otherwise the entries of drafts whose status is the filter, in the order
\* of drafts.
C23_FilteredDrafts ==
  getFilteredDrafts(state) =
    IF state.filter = "all" THEN state.drafts
    ELSE WithStatus(state.drafts, state.filter)

\* the list holds two drafts of different status and the filter keeps the
\* second of them
C23_Witness ==
  /\ Len(state.drafts) = 2
  /\ state.drafts[1].status # state.drafts[2].status
  /\ state.filter = state.drafts[2].status
  /\ getFilteredDrafts(state) = <<state.drafts[2]>>


\* C24: the list the editor holds, which is the last list handed to
\* onMediaChange, is empty, or 1 to 9 images and no video, or one video.
C24_AttachmentList ==
  \/ attachments = <<>>
  \/ /\ Len(attachments) \in 1..MAX_IMAGES
     /\ \A i \in 1..Len(attachments) : attachments[i].type = "image"
  \/ /\ Len(attachments) = 1
     /\ attachments[1].type = "video"

\* a second pick has filled the list up to nine images while the uploads of
\* both picks go on
C24_Witness ==
  /\ Len(attachments) = MAX_IMAGES
  /\ \A k \in PickSlots : pickers[k].fn = "returned" /\ uploaders[k] # NoTask
  /\ \E k \in PickSlots : Len(uploaders[k].all) < MAX_IMAGES


\* an update operation on the draft of the given id is in flight in slot c
UpdateInFlight(c, id) ==
  /\ calls[c] # Idle
  /\ calls[c].op \in UpdateOps
  /\ calls[c].draftId = id

\* every copy of the draft of the given id in s is the given draft
CopiesAre(s, id, draft) ==
  /\ \A i \in 1..Len(s.drafts) : s.drafts[i].id = id => s.drafts[i] = draft
  /\ CurrentHasId(s, id) => s.currentDraft = draft

\* C25: when an update operation on a draft succeeds while another update
\* operation on the same draft is in flight, the listed draft of that id and
\* currentDraft, if it has that id, become the draft this response carries;
\* and so they do when the other operation succeeds after it: the response
\* applied last decides, whichever operation was started first.
C25_LastWriteWins ==
  [][\A c \in Slots : \A op \in UpdateOps :
        Succeeded(c, op) =>
          /\ (\E c2 \in Slots \ {c} : UpdateInFlight(c2, calls[c].draftId)) =>
               CopiesAre(state', calls[c].draftId, mapDraft(calls[c].resp.draft))
          /\ (\A c2 \in Slots \ {c} : ~UpdateInFlight(c2, calls[c].draftId)) =>
               CopiesAre(state', calls[c].draftId, mapDraft(calls[c].resp.draft))]_vars

\* a saveDraft with a new tone and an updateDraftText of one draft were in
\* flight together and both succeeded; the backend applied the text update
\* first, its response came last, and the store shows the draft it carried,
\* with the old tone
C25_Witness ==
  /\ lastReturn = Return("updateDraftText", TRUE, NULL)
  /\ started = MaxOps
  /\ \A c \in Slots : calls[c] = Idle
  /\ \E i \in 1..Len(state.drafts) :
       /\ state.drafts[i].userEditedText \in EditTexts
       /\ server[state.drafts[i].id].tone # state.drafts[i].tone


\* C26: the cache changes only in the step in which a fetchDrafts whose list
\* call succeeded stores the list it fetched; every other step, among them
\* every step of a fetchDrafts whose list call failed and every step of
\* another operation, leaves the cache as it is; and the cached list reaches
\* the store only in the fallback step of a fetchDrafts whose list call
\* failed.
C26_CacheFrame ==
  [][/\ cache' # cache =>
          \E c \in Slots :
            /\ calls[c] # Idle
            /\ calls[c].op = "fetchDrafts"
            /\ calls[c].pc = "cacheDrafts"
            /\ calls'[c] = Idle
            /\ cache' = JSONstringify(calls[c].drafts)
            /\ lastReturn' = ReturnArray("fetchDrafts", calls[c].drafts)
     /\ \A c \in Slots :
          (calls[c] # Idle /\ calls[c].op = "fetchDrafts"
           /\ calls[c].pc = "getCachedDrafts" /\ calls'[c] = Idle) =>
            /\ cache' = cache
            /\ state'.drafts \in {state.drafts, JSONparse(cache)}]_vars

\* a fetchDrafts of this run has stored two drafts in the cache, one of them
\* created in this run, and a deleteDraft has succeeded since: the cache
\* still holds the deleted draft
C26_Witness ==
  /\ lastReturn = Return("deleteDraft", TRUE, NULL)
  /\ state.recentDraft # NullDraft
  /\ cache # NoItem
  /\ Len(cache) = MaxDrafts
  /\ \E i \in 1..Len(cache) : server[cache[i].id] = NullDraft


\* C27: in every state drafts has at most one entry per id.
C27_NoDuplicateIds ==
  \A i, j \in 1..Len(state.drafts) :
    state.drafts[i].id = state.drafts[j].id => i = j


\* C28: the step in which a scheduleDraft succeeds leaves stats.totalDrafts
\* and stats.publishedPosts as they were just before it.
C28_ScheduleKeepsOtherStats ==
  [][\A c \in Slots :
        Succeeded(c, "scheduleDraft") =>
          /\ state'.stats.totalDrafts = state.stats.totalDrafts
          /\ state'.stats.publishedPosts = state.stats.publishedPosts]_vars


\* the ids of the drafts a store state holds in drafts, currentDraft or
\* recentDraft
HeldIds(s) == {d.id : d \in HeldDrafts(s)}

\* deleteDraft(id) has succeeded: the backend has removed the draft and no
\* deleteDraft call on it is still to complete
Deleted(id) ==
  /\ id < nextId
  /\ server[id] = NullDraft
  /\ \A c \in Slots :
       calls[c] # Idle /\ calls[c].op = "deleteDraft" => calls[c].draftId # id

\* C29: once deleteDraft(id) has succeeded, no state holds a draft of that id
\* in drafts, currentDraft or recentDraft.
C29_DeletedStaysDeleted ==
  \A id \in 1..MaxDrafts : Deleted(id) => id \notin HeldIds(state)


\* the calls of an operation that have not completed
Outstanding(op) == {c \in Slots : calls[c] # Idle /\ calls[c].op = op}

\* the fetchDrafts calls whose gateway request has not been answered to them
Fetching == {c \in Outstanding("fetchDrafts") : calls[c].pc = "getDrafts"}

\* C30: isLoading is true while a fetchDrafts gateway request is
\* outstanding, isProcessing is true while a processVoiceRecording call is
\* outstanding, and each flag is false when none of its calls is outstanding.
C30_BusyFlags ==
  /\ Fetching # {} => state.isLoading
  /\ Outstanding("processVoiceRecording") # {} => state.isProcessing
  /\ Outstanding("fetchDrafts") = {} => ~state.isLoading
  /\ Outstanding("processVoiceRecording") = {} => ~state.isProcessing

====
